---- MODULE Spec2Model ----
(***************************************************************************)
(* Flow-run lifecycle of prefect.orion.models.flow_runs: idempotent run    *)
(* creation (create_flow_run) and orchestrated state transitions           *)
(* (set_flow_run_state), run by concurrent callers against one store.      *)
(*                                                                         *)
(* The driver code is modelled from src/prefect/orion/models/flow_runs.py. *)
(* The storage layer, the policy tables, the rules and the orchestration   *)
(* context live outside that file and are modelled from the specification  *)
(* (sections 4.1, 4.2 and 6).                                              *)
(***************************************************************************)
EXTENDS Integers, Sequences, FiniteSets, TLC

\* ------------------------------------------------------------------ bounds

\* Largest reading of the wall clock; every reading advances the clock.
MaxClock == 4
\* Number of run identifiers that can be handed out.
MaxRuns == 2
\* Number of State rows that can be appended over all runs.
MaxStateRows == 3

\* Concurrent callers (sessions), and the one caller of the sequential runs.
Procs == {"p1", "p2"}
SequentialCallers == {"p1"}

\* ------------------------------------------------------------------ values

NoneType == "NONE"
StateTypes == {"SCHEDULED", "RUNNING", "COMPLETED", "CANCELLED", "CANCELLING"}
\* Initial states a caller attaches to a new run (NoneType: no state attached).
InitialStates == {NoneType, "SCHEDULED"}

Flows == {"F1"}
NoKey == "<none>"
EmptyKey == ""
Keys == {NoKey, EmptyKey, "k1"}

\* A creation timestamp supplied by the caller: unset, or a time before the
\* clock started.
NoTime == -1
PastTime == 0
CreatedInputs == {NoTime, PastTime}

RunIds == 1 .. MaxRuns
NoRun ==
    [id |-> 0, flow |-> "", key |-> NoKey, created |-> NoTime, name |-> "",
     state |-> 0]

\* --------------------------------------------------- policy tables (4.1)

Wildcard == "*"

PreventTransitionsFromTerminalStates ==
    [name |-> "PreventTransitionsFromTerminalStates", pol |-> "core",
     outcomes |-> {"abort"}, to |-> NoneType]
RedirectCancelling ==
    [name |-> "RedirectCancelling", pol |-> "core",
     outcomes |-> {"rewrite"}, to |-> "CANCELLED"]
WaitForScheduledTime ==
    [name |-> "WaitForScheduledTime", pol |-> "core",
     outcomes |-> {"pass", "wait"}, to |-> NoneType]
PreventDuplicateRun ==
    [name |-> "PreventDuplicateRun", pol |-> "core",
     outcomes |-> {"reject"}, to |-> NoneType]
ConcurrencyLimit ==
    [name |-> "ConcurrencyLimit", pol |-> "core",
     outcomes |-> {"pass", "wait"}, to |-> NoneType]
SetStartTime ==
    [name |-> "SetStartTime", pol |-> "global",
     outcomes |-> {"pass"}, to |-> NoneType]
SetEndTime ==
    [name |-> "SetEndTime", pol |-> "global",
     outcomes |-> {"pass"}, to |-> NoneType]
ClearScheduling ==
    [name |-> "ClearScheduling", pol |-> "global",
     outcomes |-> {"pass"}, to |-> NoneType]
ForbidReschedule ==
    [name |-> "ForbidReschedule", pol |-> "global",
     outcomes |-> {"abort"}, to |-> NoneType]

\* Each table is an ordered list of (pattern, rules); Wildcard matches every type.
CoreFlowPolicy ==
    << [from |-> "COMPLETED", to |-> Wildcard,
        rules |-> <<PreventTransitionsFromTerminalStates>>],
       [from |-> "CANCELLED", to |-> Wildcard,
        rules |-> <<PreventTransitionsFromTerminalStates>>],
       [from |-> Wildcard, to |-> "CANCELLING", rules |-> <<RedirectCancelling>>],
       [from |-> "SCHEDULED", to |-> "RUNNING",
        rules |-> <<WaitForScheduledTime>>],
       [from |-> "RUNNING", to |-> "RUNNING", rules |-> <<PreventDuplicateRun>>],
       [from |-> Wildcard, to |-> "RUNNING", rules |-> <<ConcurrencyLimit>>] >>

GlobalFlowPolicy ==
    << [from |-> Wildcard, to |-> "RUNNING", rules |-> <<SetStartTime>>],
       [from |-> Wildcard, to |-> "COMPLETED", rules |-> <<SetEndTime>>],
       [from |-> "SCHEDULED", to |-> Wildcard, rules |-> <<ClearScheduling>>],
       [from |-> "RUNNING", to |-> "SCHEDULED", rules |-> <<ForbidReschedule>>] >>

Matches(entry, from, to) ==
    /\ entry.from \in {Wildcard, from}
    /\ entry.to \in {Wildcard, to}

SeqRange(s) == {s[i] : i \in 1 .. Len(s)}

RECURSIVE AppendNew(_, _)
AppendNew(acc, rules) ==
    IF rules = <<>> THEN acc
    ELSE AppendNew(IF Head(rules) \in SeqRange(acc) THEN acc
                   ELSE Append(acc, Head(rules)),
                   Tail(rules))

RECURSIVE CompileFrom(_, _, _, _)
CompileFrom(table, from, to, acc) ==
    IF table = <<>> THEN acc
    ELSE CompileFrom(Tail(table), from, to,
                     IF Matches(Head(table), from, to)
                     THEN AppendNew(acc, Head(table).rules)
                     ELSE acc)

\* compile(fromType, toType): every matching entry, flattened in declared
\* order, without duplicates.
compile_transition_rules(table, from, to) == CompileFrom(table, from, to, <<>>)

\* ---------------------------------------------- data documents: values

\* How many times a document is read.
MaxReads == 3

DocClasses == {"DataDocument", "FileSystemDataDocument", "OrionDataDocument"}
\* DataDocument.__subclasses__(), in definition order.
Subclasses == <<"FileSystemDataDocument", "OrionDataDocument">>
NoClass == ""

NoEncoding == "<no encoding>"
Encodings == {"file", "s3", "orion", "pickle"}

Paths == {"/tmp/a"}
FileBytes == {"x", "y"}
NoFile == "<no file>"

\* Decoded data: a (path, bytes) pair or a file system document; NoData
\* stands for the absence of the _data_cache attribute.
NoData == [kind |-> "none", path |-> "", bytes |-> "", enc |-> ""]
TupleData(path, bytes) == [kind |-> "tuple", path |-> path, bytes |-> bytes, enc |-> ""]
DocData(encoding, path) == [kind |-> "doc", path |-> path, bytes |-> "", enc |-> encoding]

\* Blobs: the UTF-8 bytes of a text, the JSON of a file system document, and
\* bytes that are neither.
NoBlob == [fmt |-> "", path |-> "", enc |-> ""]
Utf8(text) == [fmt |-> "utf-8", path |-> text, enc |-> ""]
Json(encoding, path) == [fmt |-> "json", path |-> path, enc |-> encoding]
RawBytes == [fmt |-> "raw", path |-> "", enc |-> ""]
Blobs == {Utf8(path) : path \in Paths} \cup {RawBytes}
         \cup {Json(encoding, path) : encoding \in {"file", "orion"}, path \in Paths}

NoDoc == [cls |-> NoClass, encoding |-> NoEncoding, blob |-> NoBlob, cache |-> NoData]

NoResult == [raised |-> "", data |-> NoData]

\* What happened to the document; seen is the file system as the last read
\* found it.
NoDocStats ==
    [created |-> FALSE, original |-> NoData, decode_calls |-> 0, decoded |-> 0,
     reads |-> 0, last |-> NoResult, seen |-> [path \in Paths |-> NoFile]]

\* ------------------------------------- RunGreatExpectationsValidation: values

\* An argument left at None, given an empty value ("" / [] / {}), or given a
\* non-empty value.
NoneArg == "None"
EmptyArg == "empty"
ValueArg == "value"
ArgValues == {NoneArg, EmptyArg, ValueArg}
\* A Checkpoint object, which has no empty value.
ObjectValues == {NoneArg, ValueArg}

NoArgs ==
    [expectation_suite_name |-> NoneArg, batch_kwargs |-> NoneArg,
     assets_to_validate |-> NoneArg, checkpoint_name |-> NoneArg,
     ge_checkpoint |-> NoneArg, context |-> NoneArg,
     disable_markdown_artifact |-> FALSE]

NoTaskRun ==
    [called |-> FALSE, args |-> NoArgs, success |-> FALSE, contexts |-> 0,
     validations |-> 0,
     via |-> "", get_checkpoint |-> 0, get_batch |-> 0, artifacts |-> 0,
     outcome |-> "", result |-> ""]

\* ------------------------------------------------------------------- state

VARIABLES
    clock,        \* last reading of the wall clock
    runs,         \* the flow_run table: RunIds -> row, NoRun where absent
    history,      \* the flow_run_state table: RunIds -> rows in append order
    nextRunId,    \* next fresh run id
    nextStateId,  \* next fresh State row id
    pc,           \* each caller's position
    cf,           \* locals of each caller's create_flow_run
    ss,           \* locals of each caller's set_flow_run_state
    rf,           \* locals of each caller's update, read or count call
    accepted,     \* per run, how many set_flow_run_state calls returned ACCEPT
    initial_sets, \* per run, how many create_flow_run calls set its initial state
    doc,          \* a DataDocument instance, NoDoc before it is made
    files,        \* the file system: Paths -> bytes, NoFile where absent
    dstat,        \* what happened to the document: creation, decodes, reads
    ge            \* a call of RunGreatExpectationsValidation.run

vars == <<clock, runs, history, nextRunId, nextStateId, pc, cf, ss, rf,
          accepted, initial_sets, doc, files, dstat, ge>>

\* The state outside the flow run repository.
elsewhere == <<doc, files, dstat, ge>>

\* The state of the flow run repository.
repository == <<clock, runs, history, nextRunId, nextStateId, pc, cf, ss, rf,
                accepted, initial_sets>>

NoCreate ==
    [flow |-> "", key |-> NoKey, state |-> NoneType, created |-> NoTime,
     now |-> NoTime, model |-> NoRun, invoked |-> FALSE, inserted |-> 0]

NoContext ==
    [proposed_state |-> NoneType, response_status |-> "ACCEPT",
     response_details |-> "", validated_state |-> 0]

NoSet ==
    [flow_run_id |-> 0, state |-> NoneType, force |-> FALSE, caller |-> "",
     run |-> NoRun, initial_state_type |-> NoneType,
     orchestration_rules |-> <<>>, global_rules |-> <<>>, compiled |-> FALSE,
     context |-> NoContext, entered |-> 0, validated |-> FALSE, exited |-> 0,
     log |-> <<>>, wrote |-> <<>>, rows_before |-> 0, pointer_after |-> 0,
     failed |-> FALSE, undo |-> [set |-> FALSE, pointer |-> 0]]

\* What a FlowRunUpdate leaves unset.
Unset == "<unset>"

NoCall ==
    [op |-> "", flow_run_id |-> 0, type |-> "", name |-> Unset,
     executed |-> FALSE, result |-> FALSE, rows |-> <<>>]

Init ==
    /\ clock = 0
    /\ runs = [r \in RunIds |-> NoRun]
    /\ history = [r \in RunIds |-> <<>>]
    /\ nextRunId = 1
    /\ nextStateId = 1
    /\ pc = [p \in Procs |-> "idle"]
    /\ cf = [p \in Procs |-> NoCreate]
    /\ ss = [p \in Procs |-> NoSet]
    /\ rf = [p \in Procs |-> NoCall]
    /\ accepted = [r \in RunIds |-> 0]
    /\ initial_sets = [r \in RunIds |-> 0]
    /\ doc = NoDoc
    /\ files = [path \in Paths |-> NoFile]
    /\ dstat = NoDocStats
    /\ ge = NoTaskRun

\* ------------------------------------------------------- storage (section 6)

\* get(id) -> Run | absent
read_flow_run(id) == IF id \in RunIds THEN runs[id] ELSE NoRun

\* Rows matching the unique key (flow identity, idempotency key).  A row
\* without a key (NULL) never conflicts with another.
RowsByUniqueKeys(flow, key) ==
    {r \in RunIds : /\ runs[r] # NoRun
                    /\ runs[r].flow = flow
                    /\ runs[r].key = key
                    /\ key # NoKey}

\* findByUniqueKeys(uniqueKeys) -> Run
findByUniqueKeys(flow, key) ==
    IF RowsByUniqueKeys(flow, key) = {} THEN NoRun
    ELSE runs[CHOOSE r \in RowsByUniqueKeys(flow, key) : TRUE]

\* The State row a run's pointer references, as a type.
StateTypeOf(run) ==
    IF run.state = 0 \/ run.id \notin RunIds THEN NoneType
    ELSE LET rows == {i \in 1 .. Len(history[run.id]) :
                          history[run.id][i].id = run.state}
         IN IF rows = {} THEN NoneType
            ELSE history[run.id][CHOOSE i \in rows : TRUE].type

\* --------------------------------------------------------- create_flow_run

\* `if not flow_run.idempotency_key`: an absent key and an empty string are
\* both falsy.
HasIdempotencyKey(key) == key \notin {NoKey, EmptyKey}

\* What the gate before the state-setting call comes to: the call is made,
\* it is skipped, or the gate raises.
GateSet == "set"
GateSkip == "skip"
AttributeError == "AttributeError"

\* The comparison without its timestamp test.
OwnsInitialState_AnyTimestamp(model, now, state) ==
    IF model = NoRun THEN AttributeError
    ELSE IF state # NoneType THEN GateSet ELSE GateSkip

\* The gate without its test of the carried state.
OwnsInitialState_AnyState(model, now, state) ==
    IF model = NoRun THEN AttributeError
    ELSE IF model.created >= now THEN GateSet ELSE GateSkip

\* `if model.created >= now and flow_run.state`.  When the read-back found no
\* row, model is None and `model.created` raises AttributeError, before the
\* carried state is looked at.
OwnsInitialState(model, now, state) ==
    IF model = NoRun THEN AttributeError
    ELSE IF model.created >= now /\ state # NoneType THEN GateSet ELSE GateSkip

\* The row a create call writes: a fresh id, the caller's creation time when
\* it supplied one and otherwise the clock reading taken at the insert, and
\* no state.
NewRow(c, id, at) ==
    [id |-> id, flow |-> c.flow, key |-> c.key,
     created |-> IF c.created = NoTime THEN at ELSE c.created,
     name |-> "",
     state |-> 0]

\* A fresh set_flow_run_state frame.
NewCall(id, state, force, caller) ==
    [NoSet EXCEPT !.flow_run_id = id, !.state = state, !.force = force,
                  !.caller = caller]

\* now = pendulum.now("UTC")
CreateBegin(p, flow, key, state, created) ==
    /\ pc[p] = "idle"
    /\ clock < MaxClock
    /\ clock' = clock + 1
    /\ cf' = [cf EXCEPT ![p] =
                [NoCreate EXCEPT !.flow = flow, !.key = key, !.state = state,
                                 !.created = created, !.now = clock + 1]]
    /\ pc' = [pc EXCEPT ![p] =
                IF HasIdempotencyKey(key) THEN "c_insert" ELSE "c_add"]
    /\ UNCHANGED <<runs, history, nextRunId, nextStateId, ss, accepted, initial_sets>>
    /\ UNCHANGED rf
    /\ UNCHANGED elsewhere

\* The INSERT both branches issue, when it writes a row.
InsertRow(p) ==
    /\ nextRunId <= MaxRuns
    /\ cf[p].created = NoTime => clock < MaxClock
    /\ clock' = IF cf[p].created = NoTime THEN clock + 1 ELSE clock
    /\ runs' = [runs EXCEPT ![nextRunId] = NewRow(cf[p], nextRunId, clock + 1)]
    /\ nextRunId' = nextRunId + 1

\* No idempotency key: session.add(model); session.flush().  The unique index
\* on (flow_id, idempotency_key) refuses a second row with the same non-NULL
\* key, which the flush raises as an integrity error.
CreateAdd(p) ==
    /\ pc[p] = "c_add"
    /\ IF RowsByUniqueKeys(cf[p].flow, cf[p].key) # {}
       THEN /\ pc' = [pc EXCEPT ![p] = "IntegrityError"]
            /\ UNCHANGED <<clock, runs, nextRunId, cf>>
       ELSE /\ InsertRow(p)
            /\ cf' = [cf EXCEPT ![p].model = NewRow(cf[p], nextRunId, clock + 1),
                                ![p].inserted = nextRunId]
            /\ pc' = [pc EXCEPT ![p] = "c_check"]
    /\ UNCHANGED <<history, nextStateId, ss, accepted, initial_sets>>
    /\ UNCHANGED rf
    /\ UNCHANGED elsewhere

\* With a key: INSERT ... ON CONFLICT DO NOTHING on the unique columns.
CreateInsert(p) ==
    /\ pc[p] = "c_insert"
    /\ IF RowsByUniqueKeys(cf[p].flow, cf[p].key) # {}
       THEN UNCHANGED <<clock, runs, nextRunId, cf>>
       ELSE /\ InsertRow(p)
            /\ cf' = [cf EXCEPT ![p].inserted = nextRunId]
    /\ pc' = [pc EXCEPT ![p] = "c_read"]
    /\ UNCHANGED <<history, nextStateId, ss, accepted, initial_sets>>
    /\ UNCHANGED rf
    /\ UNCHANGED elsewhere

\* The read-back: SELECT ... WHERE flow_id = ... AND idempotency_key = ...
CreateRead(p) ==
    /\ pc[p] = "c_read"
    /\ cf' = [cf EXCEPT ![p].model = findByUniqueKeys(cf[p].flow, cf[p].key)]
    /\ pc' = [pc EXCEPT ![p] = "c_check"]
    /\ UNCHANGED <<clock, runs, history, nextRunId, nextStateId, ss, accepted,
                   initial_sets>>
    /\ UNCHANGED rf
    /\ UNCHANGED elsewhere

\* The comparison that decides whether this call sets the initial state.
CreateCheck(p) ==
    /\ pc[p] = "c_check"
    /\ LET gate == OwnsInitialState(cf[p].model, cf[p].now, cf[p].state)
       IN CASE gate = GateSet ->
                 /\ cf' = [cf EXCEPT ![p].invoked = TRUE]
                 /\ ss' = [ss EXCEPT ![p] =
                             NewCall(cf[p].model.id, cf[p].state, TRUE, "create")]
                 /\ initial_sets' = [initial_sets EXCEPT ![cf[p].model.id] = @ + 1]
                 /\ pc' = [pc EXCEPT ![p] = "s_load"]
            [] gate = GateSkip ->
                 /\ pc' = [pc EXCEPT ![p] = "c_return"]
                 /\ UNCHANGED <<cf, ss, initial_sets>>
            [] gate = AttributeError ->
                 /\ pc' = [pc EXCEPT ![p] = AttributeError]
                 /\ UNCHANGED <<cf, ss, initial_sets>>
    /\ UNCHANGED <<clock, runs, history, nextRunId, nextStateId, accepted>>
    /\ UNCHANGED rf
    /\ UNCHANGED elsewhere

\* return model
CreateReturn(p) ==
    /\ pc[p] = "c_return"
    /\ cf' = [cf EXCEPT ![p] = NoCreate]
    /\ pc' = [pc EXCEPT ![p] = "idle"]
    /\ UNCHANGED <<clock, runs, history, nextRunId, nextStateId, ss, accepted,
                   initial_sets>>
    /\ UNCHANGED rf
    /\ UNCHANGED elsewhere

\* A raised error leaves the call.
Propagate(p) ==
    /\ pc[p] \in {"ValueError", "IntegrityError", AttributeError, "Failed"}
    /\ cf' = [cf EXCEPT ![p] = NoCreate]
    /\ ss' = [ss EXCEPT ![p] = NoSet]
    /\ rf' = [rf EXCEPT ![p] = NoCall]
    /\ pc' = [pc EXCEPT ![p] = "idle"]
    /\ UNCHANGED <<clock, runs, history, nextRunId, nextStateId, accepted,
                   initial_sets>>
    /\ UNCHANGED elsewhere

\* ------------------------------------------------------ set_flow_run_state

\* The load without its fail-fast test.
RunMissing_NeverRaised(run) == FALSE

\* `if not run: raise ValueError`
RunMissing(run) == run = NoRun

\* global_rules = GlobalFlowPolicy.compile_transition_rules(*intended_transition)
CompileGlobalRules(from, to) == compile_transition_rules(GlobalFlowPolicy, from, to)

\* The Core rules compiled whatever the force flag says.
CompileOrchestrationRules_IgnoreForce(force, from, to) ==
    compile_transition_rules(CoreFlowPolicy, from, to)

\* The Core rules compiled for the forced calls only.
CompileOrchestrationRules_WhenForced(force, from, to) ==
    IF force THEN compile_transition_rules(CoreFlowPolicy, from, to) ELSE <<>>

\* No Core rule compiled for any call.
CompileOrchestrationRules_Never(force, from, to) == <<>>

\* orchestration_rules = [] if force else CoreFlowPolicy.compile_transition_rules(...)
CompileOrchestrationRules(force, from, to) ==
    IF force THEN <<>> ELSE compile_transition_rules(CoreFlowPolicy, from, to)

\* The two loops in the other order.
Chain_GlobalFirst(orchestration_rules, global_rules) ==
    global_rules \o orchestration_rules

\* The order in which the exit stack is filled: the orchestration (Core)
\* rules first, then the global rules.
Chain(orchestration_rules, global_rules) == orchestration_rules \o global_rules

\* The proposed state validated before the rules are entered.
NextPhase_ValidateFirst(s) ==
    LET chain == Chain(s.orchestration_rules, s.global_rules)
    IN IF ~s.validated THEN "validate"
       ELSE IF s.entered < Len(chain) THEN "enter"
       ELSE IF s.exited < s.entered THEN "exit"
       ELSE "return"

\* The block without its call of validate_proposed_state.
NextPhase_NoValidate(s) ==
    LET chain == Chain(s.orchestration_rules, s.global_rules)
    IN IF s.entered < Len(chain) THEN "enter"
       ELSE IF s.exited < s.entered THEN "exit"
       ELSE "return"

\* validate_proposed_state called inside the loop over the rules, so not at
\* all when no rule was compiled.
NextPhase_ValidateInLoop(s) ==
    LET chain == Chain(s.orchestration_rules, s.global_rules)
    IN IF s.entered < Len(chain) THEN "enter"
       ELSE IF ~s.validated /\ Len(chain) > 0 THEN "validate"
       ELSE IF s.exited < s.entered THEN "exit"
       ELSE "return"

\* An exception leaving the block without the stack being unwound.
NextPhase_RaiseAtOnce(s) ==
    LET chain == Chain(s.orchestration_rules, s.global_rules)
    IN IF s.failed THEN "raise"
       ELSE IF s.entered < Len(chain) THEN "enter"
       ELSE IF ~s.validated THEN "validate"
       ELSE IF s.exited < s.entered THEN "exit"
       ELSE "return"

\* The block going on to the flush and the return after an exception.
NextPhase_SwallowFault(s) ==
    LET chain == Chain(s.orchestration_rules, s.global_rules)
    IN IF s.failed /\ s.exited < s.entered THEN "exit"
       ELSE IF s.failed THEN "return"
       ELSE IF s.entered < Len(chain) THEN "enter"
       ELSE IF ~s.validated THEN "validate"
       ELSE IF s.exited < s.entered THEN "exit"
       ELSE "return"

\* What the `async with AsyncExitStack()` block does next: enter the next
\* rule of the chain, then validate the proposed state, then unwind the
\* stack, then flush and return.  An exception raised inside the block
\* unwinds the stack at once and leaves the function, which has no handler.
NextPhase(s) ==
    LET chain == Chain(s.orchestration_rules, s.global_rules)
    IN IF s.failed /\ s.exited < s.entered THEN "exit"
       ELSE IF s.failed THEN "raise"
       ELSE IF s.entered < Len(chain) THEN "enter"
       ELSE IF ~s.validated THEN "validate"
       ELSE IF s.exited < s.entered THEN "exit"
       ELSE "return"

\* The result built without the context's details.
OrchestrationResult_NoDetails(context) ==
    [state |-> context.validated_state,
     status |-> context.response_status,
     details |-> ""]

\* OrchestrationResult(state=context.validated_state,
\*                     status=context.response_status,
\*                     details=context.response_details)
OrchestrationResult(context) ==
    [state |-> context.validated_state,
     status |-> context.response_status,
     details |-> context.response_details]

\* A rule's before-phase (section 4.2): pass through, replace the proposed
\* state, mark REJECT or WAIT without halting the chain, or abort.
BeforeTransition(context, rule, outcome) ==
    CASE outcome = "pass" -> context
      [] outcome = "rewrite" -> [context EXCEPT !.proposed_state = rule.to]
      [] outcome = "reject" ->
            [context EXCEPT !.response_status = "REJECT",
                            !.response_details = rule.name]
      [] outcome = "wait" ->
            [context EXCEPT !.response_status = "WAIT",
                            !.response_details = rule.name]
      [] outcome = "abort" ->
            [context EXCEPT !.proposed_state = NoneType,
                            !.response_status = "ABORT",
                            !.response_details = rule.name]

\* Every mark short-circuiting the chain, REJECT and WAIT included.
Aborted_AnyMark(context) == context.response_status # "ACCEPT"

\* An aborted chain is short-circuited: later before-phases and the terminal
\* persistence do nothing.
Aborted(context) == context.response_status = "ABORT"

\* The terminal step persists only a transition no rule has vetoed.
Persists(context) ==
    /\ context.response_status = "ACCEPT"
    /\ context.proposed_state # NoneType

LogEntry(ev, rule, ran) ==
    [ev |-> ev, pol |-> rule.pol, name |-> rule.name, ran |-> ran]

NoRule == [name |-> "", pol |-> "", outcomes |-> {}, to |-> NoneType]

SetBegin(p, id, state, force) ==
    /\ pc[p] = "idle"
    /\ ss' = [ss EXCEPT ![p] = NewCall(id, state, force, "api")]
    /\ pc' = [pc EXCEPT ![p] = "s_load"]
    /\ UNCHANGED <<clock, runs, history, nextRunId, nextStateId, cf, accepted,
                   initial_sets>>
    /\ UNCHANGED rf
    /\ UNCHANGED elsewhere

\* Load the run, fail fast if it is absent, derive the transition intent,
\* compile both rule lists and build the context.
SetLoad(p) ==
    /\ pc[p] = "s_load"
    /\ LET run == read_flow_run(ss[p].flow_run_id)
           initial_state_type == StateTypeOf(run)
           proposed_state_type == ss[p].state
       IN IF RunMissing(run)
          THEN /\ pc' = [pc EXCEPT ![p] = "ValueError"]
               /\ UNCHANGED ss
          ELSE /\ ss' = [ss EXCEPT ![p] =
                           [@ EXCEPT
                              !.run = run,
                              !.initial_state_type = initial_state_type,
                              !.global_rules =
                                  CompileGlobalRules(initial_state_type,
                                                     proposed_state_type),
                              !.orchestration_rules =
                                  CompileOrchestrationRules(ss[p].force,
                                                            initial_state_type,
                                                            proposed_state_type),
                              !.compiled = TRUE,
                              !.rows_before = Len(history[ss[p].flow_run_id]),
                              !.context =
                                  [NoContext EXCEPT
                                     !.proposed_state = ss[p].state]]]
               /\ pc' = [pc EXCEPT ![p] = "s_chain"]
    /\ UNCHANGED <<clock, runs, history, nextRunId, nextStateId, cf, accepted,
                   initial_sets>>
    /\ UNCHANGED rf
    /\ UNCHANGED elsewhere

\* context = await stack.enter_async_context(rule(context, ...))
SetEnter(p) ==
    /\ pc[p] = "s_chain"
    /\ NextPhase(ss[p]) = "enter"
    /\ LET s == ss[p]
           rule == Chain(s.orchestration_rules, s.global_rules)[s.entered + 1]
           ran == ~Aborted(s.context)
       IN \E outcome \in rule.outcomes :
            ss' = [ss EXCEPT ![p] =
                     [@ EXCEPT
                        !.entered = s.entered + 1,
                        !.context = IF ran
                                    THEN BeforeTransition(s.context, rule, outcome)
                                    ELSE s.context,
                        !.log = Append(s.log, LogEntry("enter", rule, ran))]]
    /\ UNCHANGED <<clock, runs, history, nextRunId, nextStateId, pc, cf, accepted,
                   initial_sets>>
    /\ UNCHANGED rf
    /\ UNCHANGED elsewhere

\* The State row written over the last row of the run instead of after it.
appendState_Overwrite(s, rows, row) ==
    IF rows = <<>> THEN <<row>>
    ELSE Append(SubSeq(rows, 1, Len(rows) - 1), row)

\* appendState(runID, State): the row goes after the rows the run has when
\* the write is made.
appendState(s, rows, row) == Append(rows, row)

\* A storage that lets every write of the run row through.
Stale_Never(s) == FALSE

\* The run row is no longer the row the invocation loaded: another unit of
\* work advanced its pointer, changed it or deleted it in between.  The
\* driver neither locks the row nor reads it again, so the storage's
\* isolation is what detects this at the write.
Stale(s) == read_flow_run(s.run.id) # s.run

\* await context.validate_proposed_state(): append the State row and advance
\* the run's pointer to it.  The storage prevents lost updates on the
\* read-modify-write of the pointer: the write of an invocation whose load
\* is stale is refused with a fault and nothing is written.
SetValidate(p) ==
    /\ pc[p] = "s_chain"
    /\ NextPhase(ss[p]) = "validate"
    /\ LET s == ss[p]
           r == s.run.id
           row == [id |-> nextStateId, type |-> s.context.proposed_state]
       IN IF Persists(s.context) /\ r \in RunIds /\ Stale(s)
          THEN \* the run row changed after it was loaded: the write of a
               \* State row for it is refused
               /\ ss' = [ss EXCEPT ![p] =
                           [@ EXCEPT
                              !.failed = TRUE,
                              !.log = Append(s.log,
                                             LogEntry("fault", NoRule, FALSE))]]
               /\ UNCHANGED <<history, runs, nextStateId>>
          ELSE IF Persists(s.context) /\ r \in RunIds
          THEN /\ nextStateId <= MaxStateRows
               /\ history' = [history EXCEPT ![r] = appendState(s, @, row)]
               /\ runs' = [runs EXCEPT ![r].state = row.id]
               /\ nextStateId' = nextStateId + 1
               /\ ss' = [ss EXCEPT ![p] =
                           [@ EXCEPT
                              !.validated = TRUE,
                              !.context = [s.context EXCEPT
                                             !.validated_state = row.id],
                              !.wrote = Append(s.wrote, row.id),
                              !.undo = [set |-> TRUE, pointer |-> runs[r].state],
                              !.pointer_after = row.id,
                              !.log = Append(s.log,
                                             LogEntry("validate", NoRule, TRUE))]]
          ELSE /\ ss' = [ss EXCEPT ![p] =
                           [@ EXCEPT
                              !.validated = TRUE,
                              !.pointer_after = read_flow_run(r).state,
                              !.log = Append(s.log,
                                             LogEntry("validate", NoRule,
                                                      ~Aborted(s.context)))]]
               /\ UNCHANGED <<history, runs, nextStateId>>
    /\ UNCHANGED <<clock, nextRunId, pc, cf, accepted, initial_sets>>
    /\ UNCHANGED rf
    /\ UNCHANGED elsewhere

\* The exit hooks called first entered first.
NextExit_EntryOrder(s) == s.exited + 1

\* The position in the chain of the rule whose exit hook the exit stack calls
\* next: the last entered rule that has not left yet.
NextExit(s) == s.entered - s.exited

\* Leaving the `async with` block: the stack calls the exit hooks of the
\* entered rules, last entered first.
SetExit(p) ==
    /\ pc[p] = "s_chain"
    /\ NextPhase(ss[p]) = "exit"
    /\ LET s == ss[p]
           rule == Chain(s.orchestration_rules, s.global_rules)[NextExit(s)]
       IN ss' = [ss EXCEPT ![p] =
                   [@ EXCEPT
                      !.exited = s.exited + 1,
                      !.log = Append(s.log, LogEntry("exit", rule, TRUE))]]
    /\ UNCHANGED <<clock, runs, history, nextRunId, nextStateId, pc, cf, accepted,
                   initial_sets>>
    /\ UNCHANGED rf
    /\ UNCHANGED elsewhere

\* await session.flush(); build and return the OrchestrationResult.  Called
\* from create_flow_run, the result is dropped and create_flow_run goes on.
SetReturn(p) ==
    /\ pc[p] = "s_chain"
    /\ NextPhase(ss[p]) = "return"
    /\ LET s == ss[p]
           result == OrchestrationResult(s.context)
       IN /\ accepted' = IF result.status = "ACCEPT" /\ s.run.id \in RunIds
                         THEN [accepted EXCEPT ![s.run.id] = @ + 1]
                         ELSE accepted
          /\ pc' = [pc EXCEPT ![p] =
                      IF s.caller = "create" THEN "c_return" ELSE "idle"]
    /\ ss' = [ss EXCEPT ![p] = NoSet]
    /\ UNCHANGED <<clock, runs, history, nextRunId, nextStateId, cf, initial_sets>>
    /\ UNCHANGED rf
    /\ UNCHANGED elsewhere

\* ------------------------------- update_flow_run, the reads and the count

\* The types of the values passed as update_flow_run's flow_run argument.
PayloadTypes == {"FlowRunUpdate", "FlowRun"}

\* The names an update sets; Unset when the field was never assigned.
UpdateNames == {Unset, "n1"}

\* The type test that lets every payload through.
IsFlowRunUpdate_AnyType(type) == TRUE

\* isinstance(flow_run, schemas.actions.FlowRunUpdate)
IsFlowRunUpdate(type) == type = "FlowRunUpdate"

\* An update that also clears the state column.
UpdatedRow_ClearsState(row, name) ==
    [row EXCEPT !.name = IF name = Unset THEN @ ELSE name, !.state = 0]

\* .values(**flow_run.dict(shallow=True, exclude_unset=True)): only the
\* fields the caller assigned are written.
UpdatedRow(row, name) == [row EXCEPT !.name = IF name = Unset THEN @ ELSE name]

\* The rows of the flow_run table, highest id first (FlowRunSort.ID_DESC).
RowsIdDesc ==
    LET ids == {r \in RunIds : runs[r] # NoRun}
    IN [i \in 1 .. Cardinality(ids) |->
          runs[CHOOSE r \in ids : Cardinality({q \in ids : q > r}) = i - 1]]

\* query.offset(offset), query.limit(limit); offset 0 stands for no offset
\* and a limit above the number of rows for no limit.
Page(rows, offset, limit) ==
    LET rest == SubSeq(rows, offset + 1, Len(rows))
    IN SubSeq(rest, 1, IF limit < Len(rest) THEN limit ELSE Len(rest))

Offsets == 0 .. 1
Limits == {1, MaxRuns + 1}

\* if not isinstance(flow_run, FlowRunUpdate): raise ValueError(...)
UpdateBegin(p, id, type, name) ==
    /\ pc[p] = "idle"
    /\ rf' = [rf EXCEPT ![p] =
                [NoCall EXCEPT !.op = "update_flow_run", !.flow_run_id = id,
                               !.type = type, !.name = name]]
    /\ pc' = [pc EXCEPT ![p] =
                IF IsFlowRunUpdate(type) THEN "u_execute" ELSE "ValueError"]
    /\ UNCHANGED <<clock, runs, history, nextRunId, nextStateId, cf, ss, accepted,
                   initial_sets>>
    /\ UNCHANGED elsewhere

\* result = await session.execute(update_stmt); result.rowcount > 0
UpdateExecute(p) ==
    /\ pc[p] = "u_execute"
    /\ LET id == rf[p].flow_run_id
           matched == {r \in RunIds : runs[r] # NoRun /\ runs[r].id = id}
       IN /\ runs' = [r \in RunIds |->
                        IF r \in matched THEN UpdatedRow(runs[r], rf[p].name)
                        ELSE runs[r]]
          /\ rf' = [rf EXCEPT ![p].executed = TRUE,
                              ![p].result = Cardinality(matched) > 0]
    /\ pc' = [pc EXCEPT ![p] = "r_return"]
    /\ UNCHANGED <<clock, history, nextRunId, nextStateId, cf, ss, accepted,
                   initial_sets>>
    /\ UNCHANGED elsewhere

\* read_flow_run called by a caller: session.get(FlowRun, flow_run_id)
ReadFlowRun(p, id) ==
    /\ pc[p] = "idle"
    /\ rf' = [rf EXCEPT ![p] =
                [NoCall EXCEPT !.op = "read_flow_run", !.flow_run_id = id,
                               !.executed = TRUE,
                               !.result = read_flow_run(id) # NoRun,
                               !.rows = IF read_flow_run(id) = NoRun THEN <<>>
                                        ELSE <<read_flow_run(id)>>]]
    /\ pc' = [pc EXCEPT ![p] = "r_return"]
    /\ UNCHANGED <<clock, runs, history, nextRunId, nextStateId, cf, ss, accepted,
                   initial_sets>>
    /\ UNCHANGED elsewhere

\* read_flow_runs without filters
ReadFlowRuns(p, offset, limit) ==
    /\ pc[p] = "idle"
    /\ rf' = [rf EXCEPT ![p] =
                [NoCall EXCEPT !.op = "read_flow_runs", !.executed = TRUE,
                               !.rows = Page(RowsIdDesc, offset, limit)]]
    /\ pc' = [pc EXCEPT ![p] = "r_return"]
    /\ UNCHANGED <<clock, runs, history, nextRunId, nextStateId, cf, ss, accepted,
                   initial_sets>>
    /\ UNCHANGED elsewhere

\* count_flow_runs without filters; the count is the length of rows
CountFlowRuns(p) ==
    /\ pc[p] = "idle"
    /\ rf' = [rf EXCEPT ![p] =
                [NoCall EXCEPT !.op = "count_flow_runs", !.executed = TRUE,
                               !.rows = RowsIdDesc]]
    /\ pc' = [pc EXCEPT ![p] = "r_return"]
    /\ UNCHANGED <<clock, runs, history, nextRunId, nextStateId, cf, ss, accepted,
                   initial_sets>>
    /\ UNCHANGED elsewhere

\* delete_flow_run: DELETE FROM flow_run WHERE id = flow_run_id;
\* result.rowcount > 0.  The statement names the run's row only.
DeleteFlowRun(p, id) ==
    /\ pc[p] = "idle"
    /\ LET matched == {r \in RunIds : runs[r] # NoRun /\ runs[r].id = id}
       IN /\ runs' = [r \in RunIds |-> IF r \in matched THEN NoRun ELSE runs[r]]
          /\ rf' = [rf EXCEPT ![p] =
                      [NoCall EXCEPT !.op = "delete_flow_run", !.flow_run_id = id,
                                     !.executed = TRUE,
                                     !.result = Cardinality(matched) > 0]]
    /\ pc' = [pc EXCEPT ![p] = "r_return"]
    /\ UNCHANGED <<clock, history, nextRunId, nextStateId, cf, ss, accepted,
                   initial_sets>>
    /\ UNCHANGED elsewhere

\* The update, read, count or delete call returns.
RepoReturn(p) ==
    /\ pc[p] = "r_return"
    /\ rf' = [rf EXCEPT ![p] = NoCall]
    /\ pc' = [pc EXCEPT ![p] = "idle"]
    /\ UNCHANGED <<clock, runs, history, nextRunId, nextStateId, cf, ss, accepted,
                   initial_sets>>
    /\ UNCHANGED elsewhere

\* ------------------------------------------------------------------ faults

\* create_flow_run catching what set_flow_run_state raises.
AfterRaise_CaughtByCreate(caller) ==
    IF caller = "create" THEN "c_return" ELSE "Fault"

\* Where an exception leaving set_flow_run_state goes: neither the function
\* nor create_flow_run, when it is the caller, has a handler, so it reaches
\* the owner of the session.
AfterRaise(caller) == "Fault"

\* An unrecovered fault (a storage error, a bug in a rule) in the phase the
\* block is in: a rule's entry, the terminal step, which may have appended
\* the State row already, or a rule's exit hook.
SetFault(p) ==
    /\ pc[p] = "s_chain"
    /\ ~ss[p].failed
    /\ NextPhase(ss[p]) \in {"enter", "validate", "exit"}
    /\ LET s == ss[p]
           r == s.run.id
           chain == Chain(s.orchestration_rules, s.global_rules)
           row == [id |-> nextStateId, type |-> s.context.proposed_state]
       IN CASE NextPhase(s) = "enter" ->
                 /\ ss' = [ss EXCEPT ![p] =
                             [@ EXCEPT
                                !.failed = TRUE,
                                !.log = Append(s.log,
                                               LogEntry("fault", chain[s.entered + 1],
                                                        FALSE))]]
                 /\ UNCHANGED <<history, nextStateId>>
            [] NextPhase(s) = "validate" ->
                 \E partial \in BOOLEAN :
                     IF partial /\ Persists(s.context)
                     THEN /\ nextStateId <= MaxStateRows
                          /\ history' = [history EXCEPT ![r] = appendState(s, @, row)]
                          /\ nextStateId' = nextStateId + 1
                          /\ ss' = [ss EXCEPT ![p] =
                                      [@ EXCEPT
                                         !.failed = TRUE,
                                         !.wrote = Append(s.wrote, row.id),
                                         !.log = Append(s.log,
                                                        LogEntry("fault", NoRule,
                                                                 TRUE))]]
                     ELSE /\ ~partial
                          /\ ss' = [ss EXCEPT ![p] =
                                      [@ EXCEPT
                                         !.failed = TRUE,
                                         !.log = Append(s.log,
                                                        LogEntry("fault", NoRule,
                                                                 FALSE))]]
                          /\ UNCHANGED <<history, nextStateId>>
            [] NextPhase(s) = "exit" ->
                 /\ ss' = [ss EXCEPT ![p] =
                             [@ EXCEPT
                                !.failed = TRUE,
                                !.exited = s.exited + 1,
                                !.log = Append(s.log,
                                               LogEntry("exit", chain[NextExit(s)],
                                                        FALSE))]]
                 /\ UNCHANGED <<history, nextStateId>>
    /\ UNCHANGED <<clock, runs, nextRunId, pc, cf, accepted, initial_sets>>
    /\ UNCHANGED rf
    /\ UNCHANGED elsewhere

\* The exception leaves the `async with` block once the stack is unwound.
SetRaise(p) ==
    /\ pc[p] = "s_chain"
    /\ NextPhase(ss[p]) = "raise"
    /\ pc' = [pc EXCEPT ![p] = AfterRaise(ss[p].caller)]
    /\ UNCHANGED <<clock, runs, history, nextRunId, nextStateId, cf, ss, accepted,
                   initial_sets>>
    /\ UNCHANGED rf
    /\ UNCHANGED elsewhere

\* The owner of the session discards the unit of work: the State rows the
\* invocation appended, the pointer it advanced and the run row the call
\* inserted are gone.
Rollback(p) ==
    /\ pc[p] = "Fault"
    /\ LET s == ss[p]
           r == s.flow_run_id
           inserted == cf[p].inserted
       IN /\ history' = [history EXCEPT ![r] =
                            SelectSeq(@, LAMBDA row : row.id \notin SeqRange(s.wrote))]
          /\ runs' = IF inserted # 0 THEN [runs EXCEPT ![inserted] = NoRun]
                     ELSE IF s.undo.set /\ runs[r] # NoRun
                     THEN [runs EXCEPT ![r].state = s.undo.pointer]
                     ELSE runs
    /\ pc' = [pc EXCEPT ![p] = "Failed"]
    /\ UNCHANGED <<clock, nextRunId, nextStateId, cf, ss, accepted, initial_sets>>
    /\ UNCHANGED rf
    /\ UNCHANGED elsewhere

\* ------------------------------------------------------------ DataDocument

\* supported_encodings: the arguments of the Literal annotation of the
\* class's encoding field, none for the base class whose field is a str.
supported_encodings(cls) ==
    CASE cls = "FileSystemDataDocument" -> {"s3", "file"}
      [] cls = "OrionDataDocument" -> {"orion"}
      [] OTHER -> {}

\* cls.__fields__["encoding"].get_default()
default_encoding(cls) ==
    IF cls = "OrionDataDocument" THEN "orion" ELSE NoEncoding

RECURSIVE FirstSupporting(_, _)
FirstSupporting(classes, encoding) ==
    IF classes = <<>> THEN NoClass
    ELSE IF encoding \in supported_encodings(Head(classes)) THEN Head(classes)
    ELSE FirstSupporting(Tail(classes), encoding)

\* get_datadoc_subclass: the first subclass that supports the encoding;
\* NoClass stands for the ValueError raised when there is none.
get_datadoc_subclass(encoding) == FirstSupporting(Subclasses, encoding)

\* The data a class's create accepts.
DataFor(cls) ==
    IF cls = "OrionDataDocument"
    THEN {DocData(encoding, path) : encoding \in {"file", "s3"}, path \in Paths}
    ELSE {TupleData(path, bytes) : path \in Paths, bytes \in FileBytes}

\* cls.encode(data): the blob.
encode(cls, data) ==
    IF cls = "OrionDataDocument" THEN Json(data.enc, data.path) ELSE Utf8(data.path)

\* cls.encode(data): the file system it leaves (write_blob).
FilesAfterEncode(cls, data, fs) ==
    IF cls = "FileSystemDataDocument"
    THEN [fs EXCEPT ![data.path] = data.bytes]
    ELSE fs

DecodeFailed == [ok |-> FALSE, data |-> NoData]

\* cls.decode(blob).  FileSystemDataDocument decodes the blob as a path and
\* reads the file; OrionDataDocument parses the blob as the JSON of a file
\* system document.
decode(cls, blob, fs) ==
    IF cls = "FileSystemDataDocument"
    THEN IF blob.fmt = "utf-8" /\ blob.path \in Paths
         THEN IF fs[blob.path] = NoFile THEN DecodeFailed
              ELSE [ok |-> TRUE, data |-> TupleData(blob.path, fs[blob.path])]
         ELSE DecodeFailed
    ELSE IF blob.fmt = "json" /\ blob.enc \in supported_encodings("FileSystemDataDocument")
         THEN [ok |-> TRUE, data |-> DocData(blob.enc, blob.path)]
         ELSE DecodeFailed

\* The cache test dropped: every read decodes.
HasDataCache_Never(d) == FALSE

\* hasattr(self, "_data_cache")
HasDataCache(d) == d.cache # NoData

\* self._cache_data(data)
cache_data(d, data) == [d EXCEPT !.cache = data]

\* DataDocument.create(data, encoding)
DocCreate(cls, data, encoding) ==
    /\ doc = NoDoc
    /\ LET enc == IF encoding = NoEncoding THEN default_encoding(cls) ELSE encoding
       IN IF enc \notin supported_encodings(cls)
          THEN /\ dstat' = [dstat EXCEPT !.last = [raised |-> "ValueError",
                                                   data |-> NoData]]
               /\ UNCHANGED <<doc, files>>
          ELSE /\ files' = FilesAfterEncode(cls, data, files)
               /\ doc' = cache_data([cls |-> cls, encoding |-> enc,
                                     blob |-> encode(cls, data), cache |-> NoData],
                                    data)
               /\ dstat' = [dstat EXCEPT !.created = TRUE, !.original = data,
                                         !.last = NoResult]
    /\ UNCHANGED ge
    /\ UNCHANGED repository

\* A document built from its fields (parsed from storage or from a request):
\* no cache.  The field validation refuses an encoding outside the Literal.
DocParse(cls, encoding, blob) ==
    /\ doc = NoDoc
    /\ cls = "DataDocument" \/ encoding \in supported_encodings(cls)
    /\ doc' = [cls |-> cls, encoding |-> encoding, blob |-> blob, cache |-> NoData]
    /\ UNCHANGED <<files, dstat, ge>>
    /\ UNCHANGED repository

\* DataDocument.read()
DocRead ==
    /\ doc # NoDoc
    /\ dstat.reads < MaxReads
        /\ IF HasDataCache(doc)
       THEN /\ dstat' = [dstat EXCEPT !.reads = @ + 1, !.seen = files,
                                      !.last = [raised |-> "", data |-> doc.cache]]
            /\ UNCHANGED doc
       ELSE LET cls == get_datadoc_subclass(doc.encoding)
                decoded == decode(cls, doc.blob, files)
            IN IF cls = NoClass
               THEN /\ dstat' = [dstat EXCEPT !.reads = @ + 1, !.seen = files,
                                              !.last = [raised |-> "ValueError",
                                                        data |-> NoData]]
                    /\ UNCHANGED doc
               ELSE IF ~decoded.ok
               THEN /\ dstat' = [dstat EXCEPT !.reads = @ + 1, !.seen = files,
                                              !.decode_calls = @ + 1,
                                              !.last = [raised |-> "DecodeError",
                                                        data |-> NoData]]
                    /\ UNCHANGED doc
               ELSE /\ doc' = cache_data(doc, decoded.data)
                    /\ dstat' = [dstat EXCEPT !.reads = @ + 1, !.seen = files,
                                              !.decode_calls = @ + 1,
                                              !.decoded = @ + 1,
                                              !.last = [raised |-> "",
                                                        data |-> decoded.data]]
    /\ UNCHANGED <<files, ge>>
    /\ UNCHANGED repository

\* Another writer of the file system: write_blob(bytes, path)
FileWrite(path, bytes) ==
    /\ files[path] # bytes
    /\ files' = [files EXCEPT ![path] = bytes]
    /\ UNCHANGED <<doc, dstat, ge>>
    /\ UNCHANGED repository

\* The file removed from the file system.
FileRemove(path) ==
    /\ files[path] # NoFile
    /\ files' = [files EXCEPT ![path] = NoFile]
    /\ UNCHANGED <<doc, dstat, ge>>
    /\ UNCHANGED repository

\* ------------------------------------- RunGreatExpectationsValidation.run

\* bool(x)
Truthy(x) == x = ValueArg

\* x and y
And(x, y) == IF Truthy(x) THEN y ELSE x

\* x or y
Or(x, y) == IF Truthy(x) THEN x ELSE y

\* sum(bool(x) for x in xs)
RECURSIVE SumBool(_)
SumBool(xs) ==
    IF xs = <<>> THEN 0
    ELSE (IF Truthy(Head(xs)) THEN 1 ELSE 0) + SumBool(Tail(xs))

\* The list the check sums over.
Alternatives(args) ==
    << And(args.expectation_suite_name, args.batch_kwargs),
       args.assets_to_validate,
       args.checkpoint_name,
       args.ge_checkpoint >>

\* The check asking for one alternative or more.
MutuallyExclusive_AtLeastOne(args) == SumBool(Alternatives(args)) >= 1

\* `if sum(...) != 1: raise ValueError(...)`
MutuallyExclusive(args) == SumBool(Alternatives(args)) = 1

\* `if ge_checkpoint or checkpoint_name:`
RunsCheckpoint(args) == Truthy(Or(args.ge_checkpoint, args.checkpoint_name))

\* The whole of run, for the outcome the validation has (results.success).
TaskRun(args, success) ==
    /\ ~ge.called
    /\ ge' =
         IF ~MutuallyExclusive(args)
         THEN [NoTaskRun EXCEPT
                 !.called = TRUE, !.args = args,
                 !.contexts = IF Truthy(args.context) THEN 0 ELSE 1,
                 !.outcome = "ValueError"]
         ELSE [called |-> TRUE, args |-> args, success |-> success,
               contexts |-> IF Truthy(args.context) THEN 0 ELSE 1,
               validations |-> 1,
               via |-> IF RunsCheckpoint(args) THEN "ge_checkpoint.run"
                       ELSE "context.run_validation_operator",
               get_checkpoint |->
                   IF RunsCheckpoint(args) /\ ~Truthy(args.ge_checkpoint)
                   THEN 1 ELSE 0,
               get_batch |->
                   IF ~RunsCheckpoint(args) /\ ~Truthy(args.assets_to_validate)
                   THEN 1 ELSE 0,
               artifacts |-> IF args.disable_markdown_artifact THEN 0 ELSE 1,
               outcome |-> IF success = FALSE THEN "signals.FAIL" ELSE "return",
               result |-> "results"]
    /\ UNCHANGED <<doc, files, dstat>>
    /\ UNCHANGED repository

\* ----------------------------------------------------------- specifications

\* Every operation, by every caller.
Next ==
    \/ \E p \in Procs, flow \in Flows, key \in Keys,
          state \in InitialStates, created \in CreatedInputs :
            CreateBegin(p, flow, key, state, created)
    \/ \E p \in Procs : CreateAdd(p)
    \/ \E p \in Procs : CreateInsert(p)
    \/ \E p \in Procs : CreateRead(p)
    \/ \E p \in Procs : CreateCheck(p)
    \/ \E p \in Procs : CreateReturn(p)
    \/ \E p \in Procs : Propagate(p)
    \/ \E p \in Procs, id \in RunIds, state \in StateTypes, force \in BOOLEAN :
            SetBegin(p, id, state, force)
    \/ \E p \in Procs : SetLoad(p)
    \/ \E p \in Procs : SetEnter(p)
    \/ \E p \in Procs : SetValidate(p)
    \/ \E p \in Procs : SetExit(p)
    \/ \E p \in Procs : SetReturn(p)
    \/ \E p \in Procs : SetFault(p)
    \/ \E p \in Procs : SetRaise(p)
    \/ \E p \in Procs : Rollback(p)
    \/ \E p \in Procs, id \in RunIds, type \in PayloadTypes, name \in UpdateNames :
            UpdateBegin(p, id, type, name)
    \/ \E p \in Procs : UpdateExecute(p)
    \/ \E p \in Procs, id \in RunIds : ReadFlowRun(p, id)
    \/ \E p \in Procs, offset \in Offsets, limit \in Limits :
            ReadFlowRuns(p, offset, limit)
    \/ \E p \in Procs : CountFlowRuns(p)
    \/ \E p \in Procs, id \in RunIds : DeleteFlowRun(p, id)
    \/ \E p \in Procs : RepoReturn(p)

Spec == Init /\ [][Next]_vars

\* Concurrent create_flow_run calls with every kind of argument; the only
\* set_flow_run_state invocations are the ones create_flow_run issues.
NextCreate ==
    \/ \E p \in Procs, flow \in Flows, key \in Keys,
          state \in InitialStates, created \in CreatedInputs :
            CreateBegin(p, flow, key, state, created)
    \/ \E p \in Procs : CreateAdd(p)
    \/ \E p \in Procs : CreateInsert(p)
    \/ \E p \in Procs : CreateRead(p)
    \/ \E p \in Procs : CreateCheck(p)
    \/ \E p \in Procs : CreateReturn(p)
    \/ \E p \in Procs : Propagate(p)
    \/ \E p \in Procs : SetLoad(p)
    \/ \E p \in Procs : SetEnter(p)
    \/ \E p \in Procs : SetValidate(p)
    \/ \E p \in Procs : SetExit(p)
    \/ \E p \in Procs : SetReturn(p)
    \/ \E p \in Procs : SetRaise(p)
    \/ \E p \in Procs : Rollback(p)

SpecCreate == Init /\ [][NextCreate]_vars

\* One caller issuing set_flow_run_state calls with every argument, on runs
\* it creates without an idempotency key.
NextSet ==
    \/ \E p \in SequentialCallers, flow \in Flows, state \in InitialStates :
            CreateBegin(p, flow, NoKey, state, NoTime)
    \/ \E p \in SequentialCallers : CreateAdd(p)
    \/ \E p \in SequentialCallers : CreateCheck(p)
    \/ \E p \in SequentialCallers : CreateReturn(p)
    \/ \E p \in SequentialCallers : Propagate(p)
    \/ \E p \in SequentialCallers, id \in RunIds, state \in StateTypes,
          force \in BOOLEAN :
            SetBegin(p, id, state, force)
    \/ \E p \in SequentialCallers : SetLoad(p)
    \/ \E p \in SequentialCallers : SetEnter(p)
    \/ \E p \in SequentialCallers : SetValidate(p)
    \/ \E p \in SequentialCallers : SetExit(p)
    \/ \E p \in SequentialCallers : SetReturn(p)

SpecSet == Init /\ [][NextSet]_vars

\* The proposed states of the calls that meet faults.
FaultStates == {"RUNNING", "COMPLETED"}

\* One caller whose set_flow_run_state invocations, its own and the ones its
\* create_flow_run calls issue, may meet a fault in any phase.
NextFault ==
    \/ \E p \in SequentialCallers, flow \in Flows, key \in {NoKey, "k1"},
          state \in InitialStates :
            CreateBegin(p, flow, key, state, NoTime)
    \/ \E p \in SequentialCallers : CreateAdd(p)
    \/ \E p \in SequentialCallers : CreateInsert(p)
    \/ \E p \in SequentialCallers : CreateRead(p)
    \/ \E p \in SequentialCallers : CreateCheck(p)
    \/ \E p \in SequentialCallers : CreateReturn(p)
    \/ \E p \in SequentialCallers : Propagate(p)
    \/ \E p \in SequentialCallers, id \in RunIds, state \in FaultStates,
          force \in BOOLEAN :
            SetBegin(p, id, state, force)
    \/ \E p \in SequentialCallers : SetLoad(p)
    \/ \E p \in SequentialCallers : SetEnter(p)
    \/ \E p \in SequentialCallers : SetValidate(p)
    \/ \E p \in SequentialCallers : SetExit(p)
    \/ \E p \in SequentialCallers : SetReturn(p)
    \/ \E p \in SequentialCallers : SetFault(p)
    \/ \E p \in SequentialCallers : SetRaise(p)
    \/ \E p \in SequentialCallers : Rollback(p)

SpecFault == Init /\ [][NextFault]_vars

\* The proposed states of the calls mixed with updates and reads.
RepoStates == {"RUNNING", "COMPLETED"}

\* One caller issuing every operation of the module in any order.
NextRepo ==
    \/ \E p \in SequentialCallers, flow \in Flows, key \in {NoKey, "k1"},
          state \in InitialStates :
            CreateBegin(p, flow, key, state, NoTime)
    \/ \E p \in SequentialCallers : CreateAdd(p)
    \/ \E p \in SequentialCallers : CreateInsert(p)
    \/ \E p \in SequentialCallers : CreateRead(p)
    \/ \E p \in SequentialCallers : CreateCheck(p)
    \/ \E p \in SequentialCallers : CreateReturn(p)
    \/ \E p \in SequentialCallers : Propagate(p)
    \/ \E p \in SequentialCallers, id \in RunIds, state \in RepoStates,
          force \in BOOLEAN :
            SetBegin(p, id, state, force)
    \/ \E p \in SequentialCallers : SetLoad(p)
    \/ \E p \in SequentialCallers : SetEnter(p)
    \/ \E p \in SequentialCallers : SetValidate(p)
    \/ \E p \in SequentialCallers : SetExit(p)
    \/ \E p \in SequentialCallers : SetReturn(p)
    \/ \E p \in SequentialCallers, id \in RunIds, type \in PayloadTypes,
          name \in UpdateNames :
            UpdateBegin(p, id, type, name)
    \/ \E p \in SequentialCallers : UpdateExecute(p)
    \/ \E p \in SequentialCallers, id \in RunIds : ReadFlowRun(p, id)
    \/ \E p \in SequentialCallers, offset \in Offsets, limit \in Limits :
            ReadFlowRuns(p, offset, limit)
    \/ \E p \in SequentialCallers : CountFlowRuns(p)
    \/ \E p \in SequentialCallers, id \in RunIds : DeleteFlowRun(p, id)
    \/ \E p \in SequentialCallers : RepoReturn(p)

SpecRepo == Init /\ [][NextRepo]_vars

\* The proposed states of the concurrent calls.
RaceStates == {"RUNNING"}

\* Two callers issuing set_flow_run_state calls concurrently on the runs one
\* of them creates.
NextRace ==
    \/ \E p \in SequentialCallers, flow \in Flows, state \in InitialStates :
            CreateBegin(p, flow, NoKey, state, NoTime)
    \/ \E p \in SequentialCallers : CreateAdd(p)
    \/ \E p \in SequentialCallers : CreateCheck(p)
    \/ \E p \in SequentialCallers : CreateReturn(p)
    \/ \E p \in Procs : Propagate(p)
    \/ \E p \in Procs, id \in RunIds, state \in RaceStates, force \in BOOLEAN :
            SetBegin(p, id, state, force)
    \/ \E p \in Procs : SetLoad(p)
    \/ \E p \in Procs : SetEnter(p)
    \/ \E p \in Procs : SetValidate(p)
    \/ \E p \in Procs : SetExit(p)
    \/ \E p \in Procs : SetReturn(p)
    \/ \E p \in Procs : SetRaise(p)
    \/ \E p \in Procs : Rollback(p)

SpecRace == Init /\ [][NextRace]_vars

\* One data document: created or parsed, read, with the file system changing
\* under it.
NextDoc ==
    \/ \E cls \in DocClasses, encoding \in Encodings \cup {NoEncoding} :
          \E data \in DataFor(cls) : DocCreate(cls, data, encoding)
    \/ \E cls \in DocClasses, encoding \in Encodings, blob \in Blobs :
            DocParse(cls, encoding, blob)
    \/ DocRead
    \/ \E path \in Paths, bytes \in FileBytes : FileWrite(path, bytes)
    \/ \E path \in Paths : FileRemove(path)

SpecDoc == Init /\ [][NextDoc]_vars

\* The arguments run works with, after the defaults from the task's
\* attributes.
TaskArgs ==
    [expectation_suite_name : ArgValues, batch_kwargs : ArgValues,
     assets_to_validate : ArgValues, checkpoint_name : ArgValues,
     ge_checkpoint : ObjectValues, context : ObjectValues,
     disable_markdown_artifact : BOOLEAN]

\* One call of the task's run.
NextTask == \E args \in TaskArgs, success \in BOOLEAN : TaskRun(args, success)

SpecTask == Init /\ [][NextTask]_vars

\* -------------------------------------------------------------- properties

\* A set_flow_run_state invocation that has left the `async with` block and is
\* about to flush and return its result.
AtReturn(p) == pc[p] = "s_chain" /\ NextPhase(ss[p]) = "return"

RowsOfType(r, type) == {i \in 1 .. Len(history[r]) : history[r][i].type = type}

\* C1: of the create_flow_run calls that share a flow id and a non-empty
\* idempotency key and carry an initial state, exactly one sets the initial
\* state, so a run never gets a second initial state row (a second SCHEDULED
\* row), under every interleaving of the calls.
C1_ExactlyOneInitialState ==
    \A r \in RunIds :
        (runs[r] # NoRun /\ HasIdempotencyKey(runs[r].key)) =>
            /\ initial_sets[r] <= 1
            /\ Cardinality(RowsOfType(r, "SCHEDULED")) <= 1

\* C2: for every idempotency key the callers share, the empty string
\* included: at most one run row exists for a (flow id, key) pair, every call
\* is about to return the canonical row of its pair, and no call raises the
\* conflict as an error.
C2_OneCanonicalRowNoError ==
    /\ \A flow \in Flows, key \in Keys \ {NoKey} :
           Cardinality(RowsByUniqueKeys(flow, key)) <= 1
    /\ \A p \in Procs :
           (pc[p] = "c_return" /\ cf[p].key # NoKey) =>
               /\ cf[p].model # NoRun
               /\ cf[p].model.id \in RowsByUniqueKeys(cf[p].flow, cf[p].key)
    /\ \A p \in Procs : pc[p] # "IntegrityError"

\* C8: a create_flow_run call without an idempotency key that carries an
\* initial state has driven it through set_flow_run_state by the time it
\* returns, whatever the new row's creation timestamp.
C8_NoKeyAlwaysSetsInitialState ==
    \A p \in Procs :
        (pc[p] = "c_return" /\ cf[p].key = NoKey /\ cf[p].state # NoneType) =>
            cf[p].invoked

\* C9: a create_flow_run call with an idempotency key whose canonical row
\* carries a creation timestamp earlier than the call's own `now` never
\* invokes set_flow_run_state: it has no set_flow_run_state frame and goes
\* from the comparison straight to its return.
C9_LaterCallNeverSetsState ==
    \A p \in Procs :
        (/\ pc[p] \notin {"idle", "c_insert", "c_read", "c_add"}
         /\ HasIdempotencyKey(cf[p].key)
         /\ cf[p].model # NoRun
         /\ cf[p].model.created < cf[p].now) =>
            /\ ~cf[p].invoked
            /\ ss[p] = NoSet
            /\ pc[p] \in {"c_check", "c_return"}

\* A later call that carries SCHEDULED returns a run that has no state.
C9_Witness ==
    \E p \in Procs :
        /\ pc[p] = "c_return"
        /\ HasIdempotencyKey(cf[p].key)
        /\ cf[p].model.created < cf[p].now
        /\ cf[p].created = NoTime
        /\ cf[p].state = "SCHEDULED"
        /\ runs[cf[p].model.id].state = 0
        /\ history[cf[p].model.id] = <<>>

\* ---- set_flow_run_state, one caller

ResultOf(p) == OrchestrationResult(ss[p].context)

EnteredRules(log) ==
    LET enters == SelectSeq(log, LAMBDA e : e.ev = "enter")
    IN [i \in 1 .. Len(enters) |-> enters[i].name]

RuleNames(rules) == [i \in 1 .. Len(rules) |-> rules[i].name]

\* The rule lists the two policy tables hold for an invocation's intent.
CoreRulesFor(s) ==
    RuleNames(compile_transition_rules(CoreFlowPolicy, s.initial_state_type, s.state))
GlobalRulesFor(s) ==
    RuleNames(compile_transition_rules(GlobalFlowPolicy, s.initial_state_type, s.state))

IsPrefix(a, b) == Len(a) <= Len(b) /\ SubSeq(b, 1, Len(a)) = a

Positions(log, ev) == {i \in 1 .. Len(log) : log[i].ev = ev}

\* C3: a set_flow_run_state invocation about to return status ABORT has
\* appended no State row and left the run's pointer where it found it.
C3_AbortPersistsNothing ==
    \A p \in SequentialCallers :
        (AtReturn(p) /\ ResultOf(p).status = "ABORT") =>
            /\ ss[p].wrote = <<>>
            /\ ResultOf(p).state = 0
            /\ Len(history[ss[p].run.id]) = ss[p].rows_before
            /\ runs[ss[p].run.id].state = ss[p].run.state

C3_Witness ==
    \E p \in SequentialCallers :
        /\ AtReturn(p)
        /\ ResultOf(p).status = "ABORT"
        /\ ss[p].run.state # 0

\* C4: a set_flow_run_state invocation about to return status ACCEPT has
\* appended exactly one State row, the run's last, and made the pointer
\* reference it; a run's history holds one row per invocation that returned
\* ACCEPT (plus the row of an invocation that has not returned yet), in the
\* order the rows were accepted.
C4_AcceptAppendsOneRow ==
    /\ \A p \in SequentialCallers :
           (AtReturn(p) /\ ResultOf(p).status = "ACCEPT") =>
               /\ Len(ss[p].wrote) = 1
               /\ ResultOf(p).state = ss[p].wrote[1]
               /\ Len(history[ss[p].run.id]) = ss[p].rows_before + 1
               /\ history[ss[p].run.id][ss[p].rows_before + 1].id = ss[p].wrote[1]
               /\ runs[ss[p].run.id].state = ss[p].wrote[1]
    /\ \A r \in RunIds :
           /\ Len(history[r]) =
                  accepted[r]
                  + Cardinality({p \in SequentialCallers :
                                     /\ pc[p] = "s_chain"
                                     /\ ss[p].run.id = r
                                     /\ ss[p].wrote # <<>>})
           /\ \A i, j \in 1 .. Len(history[r]) :
                  i < j => history[r][i].id < history[r][j].id

C4_Witness ==
    \E r \in RunIds :
        /\ accepted[r] = 3
        /\ Len(history[r]) = 3
        /\ \A p \in Procs : pc[p] = "idle"

\* C5: a forced invocation enters no Core rule, and the rules an invocation
\* enters are, in order, the Core rules of its intent (none when forced)
\* followed by the Global rules of its intent: all of them once the block
\* has reached the validation, a prefix of them before.
C5_ForceSkipsCoreKeepsGlobal ==
    \A p \in SequentialCallers :
        pc[p] = "s_chain" =>
            LET s == ss[p]
                expected == (IF s.force THEN <<>> ELSE CoreRulesFor(s))
                            \o GlobalRulesFor(s)
            IN /\ s.force => \A i \in 1 .. Len(s.log) : s.log[i].pol # "core"
               /\ IsPrefix(EnteredRules(s.log), expected)
               /\ NextPhase(s) # "enter" => EnteredRules(s.log) = expected

\* A forced transition whose intent has Core rules and which entered its two
\* Global rules and nothing else.
C5_Witness ==
    \E p \in SequentialCallers :
        /\ AtReturn(p)
        /\ ss[p].force
        /\ CoreRulesFor(ss[p]) # <<>>
        /\ Len(GlobalRulesFor(ss[p])) = 2
        /\ EnteredRules(ss[p].log) = GlobalRulesFor(ss[p])

\* C6: an invocation for whose intent neither policy holds a rule still runs
\* the validation, persists the proposed state as the run's current state and
\* is about to return ACCEPT.
C6_NoRuleStillAccepted ==
    \A p \in SequentialCallers :
        (/\ AtReturn(p)
         /\ CoreRulesFor(ss[p]) = <<>>
         /\ GlobalRulesFor(ss[p]) = <<>>) =>
            LET s == ss[p]
                r == s.run.id
            IN /\ s.log = <<LogEntry("validate", NoRule, TRUE)>>
               /\ ResultOf(p).status = "ACCEPT"
               /\ ResultOf(p).state # 0
               /\ history[r] # <<>>
               /\ history[r][Len(history[r])] =
                      [id |-> ResultOf(p).state, type |-> s.state]
               /\ runs[r].state = ResultOf(p).state

C6_Witness ==
    \E p \in SequentialCallers :
        /\ AtReturn(p)
        /\ ~ss[p].force
        /\ ss[p].caller = "api"
        /\ ss[p].initial_state_type # NoneType
        /\ CoreRulesFor(ss[p]) = <<>>
        /\ GlobalRulesFor(ss[p]) = <<>>

\* C7: a set_flow_run_state call whose run id matches no run raises
\* ValueError with no policy compiled, no rule entered and nothing written,
\* the raising step leaves the store as it was, and an invocation that goes
\* on to the rule chain holds the run it asked for.
C7_MissingRunInv ==
    \A p \in SequentialCallers :
        /\ pc[p] = "ValueError" =>
               /\ read_flow_run(ss[p].flow_run_id) = NoRun
               /\ ~ss[p].compiled
               /\ ss[p].orchestration_rules = <<>> /\ ss[p].global_rules = <<>>
               /\ ss[p].log = <<>>
               /\ ss[p].wrote = <<>>
        /\ pc[p] = "s_chain" =>
               /\ ss[p].run # NoRun
               /\ ss[p].run.id = ss[p].flow_run_id

C7_MissingRunStep ==
    \A p \in SequentialCallers :
        (pc[p] = "s_load" /\ read_flow_run(ss[p].flow_run_id) = NoRun) =>
            /\ pc'[p] \in {"s_load", "ValueError"}
            /\ UNCHANGED <<runs, history, nextStateId, accepted>>

C7_MissingRunFails == []C7_MissingRunInv /\ [][C7_MissingRunStep]_vars

C7_Witness ==
    \E p \in SequentialCallers :
        /\ pc[p] = "ValueError"
        /\ \E r \in RunIds : runs[r] # NoRun

\* C10: in an invocation's log the Core rules are entered before the Global
\* rules, each list in its compiled order and the Core list only when the
\* call is not forced, and the validation comes after every entry and before
\* every exit.
C10_EntryOrderThenValidation ==
    \A p \in SequentialCallers :
        pc[p] = "s_chain" =>
            LET s == ss[p]
                log == s.log
                core == SelectSeq(log, LAMBDA e : e.ev = "enter" /\ e.pol = "core")
                global == SelectSeq(log, LAMBDA e : e.ev = "enter" /\ e.pol = "global")
            IN /\ \A i, j \in Positions(log, "enter") :
                      (log[i].pol = "global" /\ log[j].pol = "core") => j < i
               /\ IsPrefix(RuleNames(core),
                           IF s.force THEN <<>> ELSE CoreRulesFor(s))
               /\ IsPrefix(RuleNames(global), GlobalRulesFor(s))
               /\ global # <<>> =>
                      RuleNames(core) = (IF s.force THEN <<>> ELSE CoreRulesFor(s))
               /\ Cardinality(Positions(log, "validate")) <= 1
               /\ \A v \in Positions(log, "validate") :
                      /\ \A i \in Positions(log, "enter") : i < v
                      /\ \A i \in Positions(log, "exit") : v < i
                      /\ RuleNames(global) = GlobalRulesFor(s)
               /\ Positions(log, "exit") # {} => Positions(log, "validate") # {}

\* An unforced invocation that entered two Core and two Global rules, then
\* validated and left.
C10_Witness ==
    \E p \in SequentialCallers :
        /\ AtReturn(p)
        /\ ~ss[p].force
        /\ Len(CoreRulesFor(ss[p])) = 2
        /\ Len(GlobalRulesFor(ss[p])) = 2
        /\ ResultOf(p).status = "ACCEPT"

Reverse(seq) == [i \in 1 .. Len(seq) |-> seq[Len(seq) + 1 - i]]

ExitedRules(log) ==
    LET exits == SelectSeq(log, LAMBDA e : e.ev = "exit")
    IN [i \in 1 .. Len(exits) |-> exits[i].name]

\* C11: in an invocation's log every exit comes after the validation, the
\* exits so far are the entered rules in reverse order starting with the last
\* entered one, and an invocation about to assemble its result has called
\* the exit hook of every entered rule exactly once.
C11_ExitsInReverseBeforeResult ==
    \A p \in SequentialCallers :
        pc[p] = "s_chain" =>
            LET log == ss[p].log
                entered == EnteredRules(log)
                exited == ExitedRules(log)
            IN /\ \A i \in Positions(log, "exit"), v \in Positions(log, "validate") :
                      v < i
               /\ exited # <<>> => Positions(log, "validate") # {}
               /\ IsPrefix(exited, Reverse(entered))
               /\ AtReturn(p) =>
                      /\ exited = Reverse(entered)
                      /\ Len(exited) = Len(Chain(ss[p].orchestration_rules,
                                                 ss[p].global_rules))

\* An unforced invocation about to return that entered a Core rule first and
\* a Global rule last, and left the Global rule first and the Core rule last.
C11_Witness ==
    \E p \in SequentialCallers :
        /\ AtReturn(p)
        /\ Len(EnteredRules(ss[p].log)) = 4
        /\ ss[p].log[1].ev = "enter" /\ ss[p].log[1].pol = "core"
        /\ ss[p].log[4].ev = "enter" /\ ss[p].log[4].pol = "global"
        /\ ss[p].log[5].ev = "validate"
        /\ ss[p].log[6].ev = "exit" /\ ss[p].log[6].name = ss[p].log[4].name
        /\ ss[p].log[9].ev = "exit" /\ ss[p].log[9].name = ss[p].log[1].name

\* The entries of a log at which a rule's entry phase raised the abort signal.
AbortPositions(log) ==
    {i \in Positions(log, "enter") :
         /\ log[i].ran
         /\ \E entry \in SeqRange(CoreFlowPolicy) \cup SeqRange(GlobalFlowPolicy) :
                \E rule \in SeqRange(entry.rules) :
                    rule.name = log[i].name /\ "abort" \in rule.outcomes}

\* C12: an invocation whose context is marked ABORT is inside the rule chain
\* or about to return, never in an error position; exactly one entered rule
\* raised the abort, no entry phase and no terminal persistence ran after it,
\* nothing was written, and the result it is about to return has status
\* ABORT, no state and the vetoing rule's reason as its details.
C12_AbortIsAResult ==
    \A p \in SequentialCallers :
        ss[p].context.response_status = "ABORT" =>
            LET log == ss[p].log
            IN /\ pc[p] = "s_chain"
               /\ Cardinality(AbortPositions(log)) = 1
               /\ \A a \in AbortPositions(log) :
                      /\ ResultOf(p).details = log[a].name
                      /\ \A j \in Positions(log, "enter") \cup Positions(log, "validate") :
                             j > a => ~log[j].ran
               /\ ss[p].wrote = <<>>
               /\ ResultOf(p) = [state |-> 0, status |-> "ABORT",
                                 details |-> ss[p].context.response_details]
               /\ ResultOf(p).details # ""

\* An invocation about to return ABORT whose first rule vetoed, with a later
\* rule and the terminal step that did nothing.
C12_Witness ==
    \E p \in SequentialCallers :
        /\ AtReturn(p)
        /\ ResultOf(p).status = "ABORT"
        /\ AbortPositions(ss[p].log) = {1}
        /\ \E j \in Positions(ss[p].log, "enter") : j > 1
        /\ \E v \in Positions(ss[p].log, "validate") : ~ss[p].log[v].ran

\* ---- faults, one caller

C13_FaultInv ==
    \A p \in SequentialCallers :
        pc[p] = "Failed" =>
            LET s == ss[p]
                r == s.flow_run_id
            IN /\ s.failed
               /\ \A i \in 1 .. Len(history[r]) :
                      history[r][i].id \notin SeqRange(s.wrote)
               /\ cf[p].inserted = 0 =>
                      /\ runs[r] = s.run
                      /\ Len(history[r]) = s.rows_before

C13_FaultStep ==
    \A p \in SequentialCallers :
        /\ (pc[p] = "s_chain" /\ ss[p].failed) => pc'[p] \in {"s_chain", "Fault"}
        /\ pc[p] = "Fault" => pc'[p] \in {"Fault", "Failed"}

\* C13: an invocation that met a fault in an entry, in the terminal step or in
\* an exit hook never goes on to return a result: the exception reaches the
\* owner of the session, and once the unit of work is discarded none of the
\* State rows the invocation appended is in the run's history, which has the
\* length it had when the run was loaded, and the run's row, pointer
\* included, is the row that was loaded.
C13_FaultLeavesNoWrite == []C13_FaultInv /\ [][C13_FaultStep]_vars

\* A fault in an exit hook, after the terminal step had appended a State row
\* and moved the pointer of a run that already had a state.
C13_Witness ==
    \E p \in SequentialCallers :
        /\ pc[p] = "Failed"
        /\ ss[p].caller = "api"
        /\ ss[p].validated
        /\ ss[p].undo.set
        /\ ss[p].wrote # <<>>
        /\ ss[p].run.state # 0

\* C14: when the set_flow_run_state invocation a create_flow_run call issued
\* has failed, the call never reaches its return, and once the unit of work
\* is discarded the run row the call inserted is gone, with its history, and
\* no row carries the call's flow id and idempotency key.
C14_CreateIsAtomic ==
    \A p \in SequentialCallers :
        /\ pc[p] = "c_return" => ~ss[p].failed
        /\ (pc[p] = "Failed" /\ ss[p].caller = "create" /\ cf[p].inserted # 0) =>
               /\ runs[cf[p].inserted] = NoRun
               /\ history[cf[p].inserted] = <<>>
               /\ \A r \in RunIds : runs[r] # NoRun => runs[r].id # cf[p].inserted
               /\ RowsByUniqueKeys(cf[p].flow, cf[p].key) = {}

\* A keyed create whose initial state row had been appended when the
\* terminal step failed.
C14_Witness ==
    \E p \in SequentialCallers :
        /\ pc[p] = "Failed"
        /\ ss[p].caller = "create"
        /\ cf[p].key = "k1"
        /\ cf[p].inserted # 0
        /\ ss[p].wrote # <<>>

\* C15: an invocation whose context is marked REJECT has written nothing, and
\* still has not when it is about to return: no State row of its own, the
\* history as long as when the run was loaded, the pointer where it was, no
\* validated state in the result; the REJECT did not halt the chain, every
\* rule after it ran its entry and the terminal step ran.
C15_RejectPersistsNothing ==
    \A p \in SequentialCallers :
        (pc[p] = "s_chain" /\ ResultOf(p).status = "REJECT") =>
            LET s == ss[p]
                r == s.run.id
            IN /\ s.wrote = <<>>
               /\ ResultOf(p).state = 0
               /\ Len(history[r]) = s.rows_before
               /\ runs[r].state = s.run.state
               /\ \A i \in Positions(s.log, "enter") \cup Positions(s.log, "validate") :
                      s.log[i].ran
               /\ AtReturn(p) =>
                      /\ Positions(s.log, "validate") # {}
                      /\ Len(EnteredRules(s.log)) =
                             Len(Chain(s.orchestration_rules, s.global_rules))

\* A rejected invocation about to return, with rules entered after the one
\* that rejected and the terminal step run.
C15_Witness ==
    \E p \in SequentialCallers :
        /\ AtReturn(p)
        /\ ResultOf(p).status = "REJECT"
        /\ ss[p].run.state # 0
        /\ \E i, j \in Positions(ss[p].log, "enter") :
               /\ i < j
               /\ ss[p].log[i].name = ResultOf(p).details
               /\ ss[p].log[j].ran
        /\ \E v \in Positions(ss[p].log, "validate") : ss[p].log[v].ran

\* ---- concurrent set_flow_run_state calls

C16_PointerInv ==
    \A r \in RunIds :
        runs[r] # NoRun =>
            /\ history[r] = <<>> => runs[r].state = 0
            /\ history[r] # <<>> => runs[r].state = history[r][Len(history[r])].id
            /\ Len(history[r]) =
                   accepted[r]
                   + Cardinality({p \in Procs : /\ pc[p] = "s_chain"
                                                /\ ss[p].run.id = r
                                                /\ ss[p].wrote # <<>>})
            /\ \A p \in Procs :
                   (pc[p] = "s_chain" /\ ss[p].run.id = r) =>
                       \A i \in 1 .. Len(ss[p].wrote) :
                           \E j \in 1 .. Len(history[r]) :
                               history[r][j].id = ss[p].wrote[i]

C16_HistoryStep == \A r \in RunIds : IsPrefix(history[r], history'[r])

\* C16: with two callers, a run's pointer references the last row of its
\* history (no row when the history is empty), the history holds one row per
\* invocation that returned ACCEPT plus the rows of the invocations that have
\* written and not returned, every row an invocation wrote is in it, and a
\* step only ever appends to it.
C16_PointerIsLatestAccepted == []C16_PointerInv /\ [][C16_HistoryStep]_vars

\* Two invocations on one run that had both loaded it before either wrote:
\* one has written its row, which the pointer references, and the write of
\* the other was refused.
C16_Witness ==
    \E p, q \in Procs :
        /\ p # q
        /\ pc[p] = "s_chain" /\ pc[q] = "s_chain"
        /\ ss[p].run.id = ss[q].run.id
        /\ ss[p].rows_before = ss[q].rows_before
        /\ ss[p].run.state = ss[q].run.state
        /\ ss[p].wrote # <<>>
        /\ runs[ss[p].run.id].state = ss[p].wrote[1]
        /\ ss[q].failed /\ ss[q].wrote = <<>>
        /\ \E i \in Positions(ss[q].log, "fault") : ss[q].log[i].name = ""

\* ---- every operation, one caller

\* The step is the terminal step of an invocation on run r: the invocation
\* becomes validated, records a row it wrote, and the run's pointer is the
\* validated state.
TerminalStepOn(r) ==
    \E p \in Procs :
        /\ pc[p] = "s_chain"
        /\ ss[p].run.id = r
        /\ ~ss[p].validated /\ ss'[p].validated
        /\ Len(ss'[p].wrote) = Len(ss[p].wrote) + 1
        /\ runs'[r].state = ss'[p].context.validated_state

C17_FrameStep ==
    /\ \A r \in RunIds :
           /\ (runs[r] # NoRun /\ runs'[r] # NoRun /\ runs'[r].state # runs[r].state)
                  => TerminalStepOn(r)
           /\ history'[r] # history[r] => TerminalStepOn(r)
           /\ (runs[r] = NoRun /\ runs'[r] # NoRun) =>
                  runs'[r].state = 0 /\ history'[r] = <<>>
           /\ (runs[r] # NoRun /\ runs'[r] = NoRun) =>
                  \E p \in Procs : /\ pc[p] = "idle"
                                   /\ rf'[p].op = "delete_flow_run"
                                   /\ rf'[p].flow_run_id = runs[r].id
    /\ \A p \in Procs :
           \/ rf'[p] # rf[p] /\ "delete_flow_run" \notin {rf[p].op, rf'[p].op}
           \/ pc[p] \in {"c_add", "c_insert", "c_read", "c_check"}
           => /\ history' = history
              /\ \A r \in RunIds : runs'[r].state = runs[r].state

\* C17: a step changes the pointer of a run that exists before and after it,
\* or a run's history, only when it is the terminal step of a
\* set_flow_run_state invocation on that run; a row appears with no state and
\* no history and disappears only in a delete_flow_run; and the steps of
\* update_flow_run, read_flow_run, read_flow_runs and count_flow_runs and
\* the insert, read-back and comparison of create_flow_run leave every
\* pointer and every history as they were.
C17_PointerChangesOnlyInTerminalStep == [][C17_FrameStep]_vars

\* An update that found and renamed a run that has a current state.
C17_Witness ==
    \E p \in SequentialCallers :
        /\ pc[p] = "r_return"
        /\ rf[p].op = "update_flow_run"
        /\ rf[p].result
        /\ runs[rf[p].flow_run_id].name = "n1"
        /\ runs[rf[p].flow_run_id].state # 0
        /\ history[rf[p].flow_run_id] # <<>>

C20_UpdateInv ==
    \A p \in SequentialCallers :
        rf[p].op = "update_flow_run" =>
            /\ rf[p].type # "FlowRunUpdate" =>
                   pc[p] = "ValueError" /\ ~rf[p].executed
            /\ rf[p].type = "FlowRunUpdate" =>
                   /\ pc[p] \in {"u_execute", "r_return"}
                   /\ pc[p] = "r_return" =>
                          /\ rf[p].executed
                          /\ rf[p].result = (read_flow_run(rf[p].flow_run_id) # NoRun)
                          /\ (rf[p].result /\ rf[p].name # Unset) =>
                                 runs[rf[p].flow_run_id].name = rf[p].name

C20_UpdateStep ==
    \A p \in SequentialCallers :
        (pc[p] = "idle" /\ pc'[p] = "ValueError") => UNCHANGED <<runs, history>>

\* C20: an update_flow_run call whose payload is not a FlowRunUpdate is at
\* ValueError without having executed its statement, and the step that
\* raises changes no row; a call with a FlowRunUpdate executes it and returns
\* true exactly when a run with the given id exists, which then carries the
\* values the payload set.
C20_UpdateValidatesPayload == []C20_UpdateInv /\ [][C20_UpdateStep]_vars

\* A payload of the wrong type for a run that exists.
C20_Witness ==
    \E p \in SequentialCallers :
        /\ pc[p] = "ValueError"
        /\ rf[p].op = "update_flow_run"
        /\ rf[p].type = "FlowRun"
        /\ read_flow_run(rf[p].flow_run_id) # NoRun

\* ---- the two scenarios of section 8

\* No Global rule compiled for the invocation's intent can veto, reject,
\* delay or rewrite the transition.
NoGlobalRuleForbids(s) ==
    \A rule \in SeqRange(compile_transition_rules(GlobalFlowPolicy,
                                                  s.initial_state_type, s.state)) :
        rule.outcomes = {"pass"}

\* C18: a forced invocation proposing RUNNING for a run whose current state
\* is CANCELLED, with no Global rule against the intent, is about to return
\* ACCEPT with a RUNNING row appended as the last of the history and as the
\* run's current state, and entered no Core rule.
C18_ForcedFromTerminalAccepted ==
    \A p \in SequentialCallers :
        (/\ AtReturn(p)
         /\ ss[p].force
         /\ ss[p].initial_state_type = "CANCELLED"
         /\ ss[p].state = "RUNNING"
         /\ NoGlobalRuleForbids(ss[p])) =>
            LET s == ss[p]
                r == s.run.id
            IN /\ ResultOf(p).status = "ACCEPT"
               /\ Len(s.wrote) = 1
               /\ Len(history[r]) = s.rows_before + 1
               /\ history[r][Len(history[r])] =
                      [id |-> ResultOf(p).state, type |-> "RUNNING"]
               /\ runs[r].state = ResultOf(p).state
               /\ runs[r].state # s.run.state
               /\ \A i \in 1 .. Len(s.log) : s.log[i].pol # "core"

C18_Witness ==
    \E p \in SequentialCallers :
        /\ AtReturn(p)
        /\ ss[p].force
        /\ ss[p].initial_state_type = "CANCELLED"
        /\ ss[p].state = "RUNNING"
        /\ NoGlobalRuleForbids(ss[p])
        /\ CoreRulesFor(ss[p]) # <<>>
        /\ StateTypeOf(runs[ss[p].run.id]) = "RUNNING"

\* C19: an unforced invocation proposing COMPLETED for a run whose current
\* state is COMPLETED is about to return ABORT or REJECT, having written no
\* row, with the history and the pointer as they were when the run was
\* loaded.
C19_CompletedTwiceVetoed ==
    \A p \in SequentialCallers :
        (/\ AtReturn(p)
         /\ ~ss[p].force
         /\ ss[p].initial_state_type = "COMPLETED"
         /\ ss[p].state = "COMPLETED") =>
            LET s == ss[p]
                r == s.run.id
            IN /\ ResultOf(p).status \in {"ABORT", "REJECT"}
               /\ ResultOf(p).state = 0
               /\ s.wrote = <<>>
               /\ Len(history[r]) = s.rows_before
               /\ runs[r] = s.run
               /\ StateTypeOf(runs[r]) = "COMPLETED"

C19_Witness ==
    \E p \in SequentialCallers :
        /\ AtReturn(p)
        /\ ~ss[p].force
        /\ ss[p].initial_state_type = "COMPLETED"
        /\ ss[p].state = "COMPLETED"
        /\ Len(history[ss[p].run.id]) = 1

\* ---- REJECT and WAIT marks

\* The step in which caller p enters a rule whose entry phase marks the
\* context with the given status.
MarksContext(p, status) ==
    /\ pc[p] = "s_chain"
    /\ pc'[p] = "s_chain"
    /\ ss'[p].entered = ss[p].entered + 1
    /\ ss'[p].context # ss[p].context
    /\ ss'[p].context.response_status = status

\* The rules of a chain that can mark the context with the given status.
Markers(chain, status) ==
    {i \in 1 .. Len(chain) :
        \/ status = "REJECT" /\ "reject" \in chain[i].outcomes
        \/ status = "WAIT" /\ "wait" \in chain[i].outcomes}

C21_MarkInv ==
    \A p \in SequentialCallers :
        (AtReturn(p) /\ ss[p].context.response_status \in {"REJECT", "WAIT"}) =>
            LET s == ss[p]
                log == s.log
                chain == Chain(s.orchestration_rules, s.global_rules)
            IN /\ EnteredRules(log) = RuleNames(chain)
               /\ \A i \in Positions(log, "enter") : log[i].ran
               /\ Cardinality(Positions(log, "validate")) = 1
               /\ \A v \in Positions(log, "validate") :
                      log[v].ran /\ \A i \in Positions(log, "enter") : i < v
               /\ ResultOf(p).status = s.context.response_status
               /\ ResultOf(p).status # "ACCEPT"
               /\ \E i \in Markers(chain, ResultOf(p).status) :
                      chain[i].name = ResultOf(p).details

C21_MarkStep ==
    \A p \in SequentialCallers :
        /\ \A status \in {"REJECT", "WAIT"} :
              MarksContext(p, status) =>
                  /\ ~ss'[p].failed
                  /\ NextPhase(ss'[p]) \in {"enter", "validate"}
                  /\ ss'[p].context.proposed_state = ss[p].context.proposed_state
        /\ (/\ pc[p] = "s_chain"
            /\ pc'[p] = "s_chain"
            /\ ss[p].context.response_status \in {"REJECT", "WAIT"}) =>
               /\ ss'[p].context.response_status # "ACCEPT"
               /\ ss'[p].context.response_status # ss[p].context.response_status
                      => ss'[p].entered = ss[p].entered + 1
               /\ ss'[p].entered >= ss[p].entered
        /\ (AtReturn(p) /\ ss[p].context.response_status \in {"REJECT", "WAIT"}) =>
               /\ pc'[p] \in {"s_chain", "idle"}
               /\ pc'[p] = "idle" => ss'[p] = NoSet
               /\ history' = history
               /\ runs' = runs

\* C21: a rule that marks the context REJECT or WAIT leaves the invocation in
\* the chain with the next rule or the terminal step to come; a mark is not
\* reset to ACCEPT and changes only when a later rule is entered; the
\* invocation about to return REJECT or WAIT has entered every rule of its
\* chain once, in order, each with its entry phase run, has run the terminal
\* step once after them, and returns the status and the reason of a rule of
\* the chain that sets that status; returning it, the caller goes idle and no
\* rule is entered a second time.
C21_MarksDoNotHaltTheChain == []C21_MarkInv /\ [][C21_MarkStep]_vars

\* An invocation about to return WAIT, marked by the first rule of a chain of
\* more than two rules.
C21_Witness ==
    \E p \in SequentialCallers :
        /\ AtReturn(p)
        /\ ResultOf(p).status = "WAIT"
        /\ Len(ss[p].orchestration_rules) >= 2
        /\ ResultOf(p).details = ss[p].orchestration_rules[1].name
        /\ Len(EnteredRules(ss[p].log)) >= 3

\* ---- data documents

\* A step of read().
IsRead == dstat'.reads = dstat.reads + 1

C22_CacheInv ==
    doc # NoDoc =>
        /\ dstat.decoded <= 1
        /\ doc.cache # NoData <=> (dstat.created \/ dstat.decoded = 1)
        /\ dstat.created =>
               /\ doc.cache = dstat.original
               /\ dstat.decode_calls = 0
        /\ dstat.decoded = 1 => ~dstat.created

C22_CacheStep ==
    /\ (doc # NoDoc /\ doc.cache # NoData) => doc' = doc
    /\ (IsRead /\ doc.cache # NoData) =>
           /\ dstat'.last = [raised |-> "", data |-> doc.cache]
           /\ dstat'.decode_calls = dstat.decode_calls
           /\ dstat'.decoded = dstat.decoded
    /\ (IsRead /\ doc.cache = NoData) =>
           /\ dstat'.last.raised = "" =>
                  /\ doc'.cache = dstat'.last.data
                  /\ doc'.cache # NoData
                  /\ dstat'.decoded = 1
                  /\ dstat'.decode_calls = dstat.decode_calls + 1
           /\ dstat'.last.raised # "" =>
                  /\ doc' = doc
                  /\ dstat'.decoded = dstat.decoded
           /\ get_datadoc_subclass(doc.encoding) = NoClass =>
                  /\ dstat'.last.raised = "ValueError"
                  /\ dstat'.decode_calls = dstat.decode_calls

\* C22: a document has at most one completed decode; its cache is set exactly
\* when create made it (then to the data create was given, with no decode at
\* all) or a read decoded it; once set the cache never changes, and a read
\* returns it without a call of decode; a read of a document without cache
\* that returns sets the cache to what it returns; a read that raises, for a
\* failing decode or for an encoding no subclass supports, leaves the cache
\* unset.
C22_DecodedAtMostOnce == []C22_CacheInv /\ [][C22_CacheStep]_vars

\* A parsed document read three times: the first read failed in decode, the
\* second decoded, and the third returned the cached data although the file
\* holds other bytes by then.
C22_Witness ==
    /\ doc # NoDoc
    /\ ~dstat.created
    /\ dstat.reads = 3
    /\ dstat.decode_calls = 2
    /\ dstat.decoded = 1
    /\ dstat.last = [raised |-> "", data |-> doc.cache]
    /\ doc.cache.kind = "tuple"
    /\ dstat.seen[doc.cache.path] # doc.cache.bytes

\* ---- RunGreatExpectationsValidation

\* How many of the four alternatives a call was given: the suite name
\* together with the batch kwargs, the assets, the checkpoint name, the
\* checkpoint object.  Given means a non-empty value.
GivenAlternatives(args) ==
    {k \in {"suite and batch", "assets", "name", "checkpoint"} :
        \/ /\ k = "suite and batch"
           /\ args.expectation_suite_name = ValueArg
           /\ args.batch_kwargs = ValueArg
        \/ k = "assets" /\ args.assets_to_validate = ValueArg
        \/ k = "name" /\ args.checkpoint_name = ValueArg
        \/ k = "checkpoint" /\ args.ge_checkpoint = ValueArg}

\* C23: a call of run given none or more than one of the four alternatives
\* ended in ValueError with no checkpoint or batch fetched, no validation run
\* and no artifact made; a call given exactly one ran one validation, by the
\* checkpoint when the checkpoint or its name was given and by the validation
\* operator otherwise, and raised signals.FAIL carrying the results when the
\* validation was not a success and returned the results when it was.
C23_ExactlyOneAlternative ==
    ge.called =>
        IF Cardinality(GivenAlternatives(ge.args)) # 1
        THEN /\ ge.outcome = "ValueError"
             /\ ge.validations = 0
             /\ ge.get_checkpoint = 0
             /\ ge.get_batch = 0
             /\ ge.artifacts = 0
             /\ ge.result = ""
        ELSE /\ ge.validations = 1
             /\ ge.outcome = IF ge.success THEN "return" ELSE "signals.FAIL"
             /\ ge.result = "results"
             /\ ge.via = IF GivenAlternatives(ge.args) \subseteq {"name", "checkpoint"}
                         THEN "ge_checkpoint.run"
                         ELSE "context.run_validation_operator"

\* A call given the suite name with the batch kwargs, an empty checkpoint
\* name and an empty asset list, whose validation failed.
C23_Witness ==
    /\ ge.called
    /\ GivenAlternatives(ge.args) = {"suite and batch"}
    /\ ge.args.checkpoint_name = EmptyArg
    /\ ge.args.assets_to_validate = EmptyArg
    /\ ge.validations = 1
    /\ ge.get_batch = 1
    /\ ge.outcome = "signals.FAIL"

\* ---- concurrent invocations: the from-type

\* The step in which caller p's terminal step writes a State row.
Commits(p) ==
    /\ pc[p] = "s_chain"
    /\ Len(ss'[p].wrote) = Len(ss[p].wrote) + 1

C24_CommitStep ==
    \A p \in Procs :
        Commits(p) =>
            ss[p].initial_state_type = StateTypeOf(runs[ss[p].run.id])

C25_IntentInv ==
    \A p \in Procs :
        (pc[p] = "s_chain" /\ ss[p].caller = "create") =>
            ss[p].initial_state_type = NoneType

\* The step in which caller p's terminal step runs.
Validates(p) ==
    /\ pc[p] = "s_chain"
    /\ ~ss[p].validated
    /\ ss'[p].validated

C25_TerminalStep ==
    \A p \in Procs :
        (Validates(p) /\ ss[p].caller = "create") =>
            /\ history[ss[p].run.id] = <<>>
            /\ runs[ss[p].run.id].state = 0

\* C25: with concurrent create_flow_run calls, an invocation of
\* set_flow_run_state issued by create_flow_run has compiled its rules for an
\* absent from-type, and its terminal step finds the run without a current
\* state and with an empty history.
C25_CreateSetsOnARunWithoutState == []C25_IntentInv /\ [][C25_TerminalStep]_vars

\* ---- create_flow_run without an initial state

CreatePositions == {"c_add", "c_insert", "c_read", "c_check", "c_return"}

\* A step taken by caller p inside a create_flow_run call that carries no
\* initial state.
StepOfStatelessCreate(p) ==
    /\ pc[p] \in CreatePositions
    /\ cf[p].state = NoneType
    /\ pc'[p] # pc[p] \/ cf'[p] # cf[p]

C26_StatelessCreateStep ==
    \A p \in Procs :
        StepOfStatelessCreate(p) =>
            /\ pc'[p] \in CreatePositions \cup {"idle", "IntegrityError", AttributeError}
            /\ ss'[p] = NoSet
            /\ ~cf'[p].invoked
            /\ history' = history
            /\ nextStateId' = nextStateId
            /\ initial_sets' = initial_sets
            /\ \A r \in RunIds :
                   IF runs[r] # NoRun THEN runs'[r] = runs[r]
                   ELSE runs'[r] # NoRun =>
                            /\ runs'[r].state = 0
                            /\ history'[r] = <<>>
                            /\ cf'[p].inserted = r

\* C26: no step of a create_flow_run call that carries no initial state, with
\* or without an idempotency key, starts a set_flow_run_state invocation,
\* writes a State row or changes a run that exists; the run row such a call
\* inserts has no current state and an empty history.
C26_StatelessCreateNeverSetsState == [][C26_StatelessCreateStep]_vars

\* A call without an initial state about to return a run another call
\* inserted after this one had started, which has a state by now.
C26_Witness ==
    \E p \in Procs :
        /\ pc[p] = "c_return"
        /\ cf[p].state = NoneType
        /\ HasIdempotencyKey(cf[p].key)
        /\ cf[p].inserted = 0
        /\ cf[p].model.created >= cf[p].now
        /\ history[cf[p].model.id] # <<>>

\* ---- the exit stack on a failure

\* The invocation has left, or is about to leave, the block by an exception.
Unwound(p) ==
    \/ pc[p] = "s_chain" /\ NextPhase(ss[p]) = "raise"
    \/ pc[p] \in {"Fault", "Failed"}

\* C27: in an invocation that failed in a rule's entry or in the terminal
\* step, nothing is entered and no terminal step runs after the failure, the
\* exits that follow it are the entered rules in reverse order from the last
\* entered one, the rule whose entry failed is not among them, and when the
\* exception leaves the block every entered rule has been left once; after a
\* failed entry the terminal step has not run and no row was written.
C27_FailureUnwindsEnteredRules ==
    \A p \in SequentialCallers :
        \A f \in Positions(ss[p].log, "fault") :
            LET s == ss[p]
                log == s.log
                entered == EnteredRules(log)
                exited == ExitedRules(log)
            IN /\ Positions(log, "fault") = {f}
               /\ \A i \in Positions(log, "enter") \cup Positions(log, "validate") :
                      i < f
               /\ \A i \in Positions(log, "exit") : i > f /\ log[i].ran
               /\ IsPrefix(exited, Reverse(entered))
               /\ Len(entered) = s.entered
               /\ log[f].name # "" =>
                      /\ log[f].name \notin SeqRange(entered)
                      /\ log[f].name \notin SeqRange(exited)
                      /\ log[f].name =
                             Chain(s.orchestration_rules, s.global_rules)[s.entered + 1].name
                      /\ Positions(log, "validate") = {}
                      /\ ~s.validated
                      /\ s.wrote = <<>>
               /\ Unwound(p) => exited = Reverse(entered)

\* A failure in the entry of the third rule of a chain of four: the two
\* entered rules were left, the second first, and the exception is out.
C27_Witness ==
    \E p \in SequentialCallers :
        /\ pc[p] = "Fault"
        /\ Len(Chain(ss[p].orchestration_rules, ss[p].global_rules)) = 4
        /\ Len(ss[p].log) = 5
        /\ ss[p].log[1].ev = "enter"
        /\ ss[p].log[2].ev = "enter"
        /\ ss[p].log[3].ev = "fault" /\ ss[p].log[3].name # ""
        /\ ss[p].log[4].ev = "exit" /\ ss[p].log[4].name = ss[p].log[2].name
        /\ ss[p].log[5].ev = "exit" /\ ss[p].log[5].name = ss[p].log[1].name

====
